---- MODULE Spec2Model ----
(***************************************************************************)
(* A model of ufomerge (Lib/ufomerge/__init__.py): UFOMerger and           *)
(* merge_ufos.  Fonts are functions from glyph names to glyph records, the *)
(* feature file is a tree of statement records, kerning and groups are     *)
(* functions.  Each phase of UFOMerger.merge is one action; the pure       *)
(* routines (filter_glyphs, filter_glyph_container, filter_layout,         *)
(* _deduplicate_class_defs, clean_layout, merge_kerning) are operators.    *)
(***************************************************************************)
EXTENDS Integers, Sequences, FiniteSets, TLC

VARIABLES
    pc,                     \* position inside merge_ufos / UFOMerger.merge
    err,                    \* the exception that ended the call ("" if none)
    ufo1,                   \* destination default layer: name -> glyph
    ufo2,                   \* donor default layer: name -> glyph
    ufo1_orig,              \* ufo1 as it was when merge_ufos was called
    features1_orig,         \* ufo1.features.text when merge_ufos was called
    opts,                   \* the arguments of merge_ufos
    incoming_glyphset,      \* insertion-ordered keys of the dict
    final_glyphset,
    blacklisted,
    ufo2_features,          \* ufo2_features.statements
    ufo2_features_orig,     \* the donor rules as parsed
    class_name_references,  \* ordered dict: class name -> list of copies
    mark_classes,           \* the shared MarkClass objects: name -> glyphs
    ufo2_languagesystems,
    features1,              \* ufo1.features.text, as its statements
    groups1, kerning1,      \* ufo1.groups, ufo1.kerning
    groups2, kerning2,      \* ufo2.groups, ufo2.kerning
    kern_orig,              \* ufo1 groups/kerning when merge_kerning was called
    rounds, count,          \* locals of the closure loop
    stack,                  \* call stack of close_components
    todo,                   \* keys still to visit in the running for-loop
    layers1, layers2,       \* the non-default layers: layer name -> glyphs
    lib1, lib2,             \* ufo1.lib, ufo2.lib
    pass1                   \* the emitted rules of an earlier subsetting pass

vars == <<pc, err, ufo1, ufo2, ufo1_orig, features1_orig, opts, incoming_glyphset,
          final_glyphset, blacklisted, ufo2_features, ufo2_features_orig,
          class_name_references, mark_classes, ufo2_languagesystems,
          features1, groups1, kerning1, groups2, kerning2, kern_orig,
          rounds, count, stack, todo, layers1, layers2, lib1, lib2, pass1>>

-----------------------------------------------------------------------------
(* Generic helpers *)

Range(s) == {s[i] : i \in 1..Len(s)}

InSeq(x, s) == \E i \in 1..Len(s) : s[i] = x

\* dict[key] = True on an insertion-ordered dict: a new key goes last
DictSet(keys, k) == IF InSeq(k, keys) THEN keys ELSE Append(keys, k)

\* del dict[key]
DictDel(keys, k) == SelectSeq(keys, LAMBDA x : x # k)

RECURSIVE SetToSeq(_, _)
\* The members of S in the order of the sequence `order`
SetToSeq(S, order) ==
    IF order = <<>> THEN <<>>
    ELSE IF Head(order) \in S
         THEN <<Head(order)>> \o SetToSeq(S, Tail(order))
         ELSE SetToSeq(S, Tail(order))

RECURSIVE Reverse(_)
Reverse(s) == IF s = <<>> THEN <<>> ELSE Append(Reverse(Tail(s)), Head(s))

\* Every glyph name of the model, in Python's string order (sorted())
SortedNames == <<"A", "B", "C", "D", "E", "F", "G", "P", "Q", "X", "Y", "Z">>

\* sorted(glyphs) of a list without repeated names
Sorted(glyphs) == SelectSeq(SortedNames, LAMBDA g : InSeq(g, glyphs))

-----------------------------------------------------------------------------
(* Glyph containers (fontTools.feaLib.ast)                                 *)
(*   k      the class of the object                                        *)
(*   name   glyphclass.name of a GlyphClassName, markClass.name of a       *)
(*          MarkClassName                                                  *)
(*   key, site  where the copy of a GlyphClassName sits in                 *)
(*          class_name_references (the aliasing of container_copy)         *)
(*   glyphs the glyph list the object owns                                 *)

GlyphName(g) == [k |-> "GlyphName", name |-> "", key |-> "", site |-> 0, glyphs |-> <<g>>]
GlyphClass(gs) == [k |-> "GlyphClass", name |-> "", key |-> "", site |-> 0, glyphs |-> gs]
GlyphClassName(n, gs) == [k |-> "GlyphClassName", name |-> n, key |-> "", site |-> 0, glyphs |-> gs]
MarkClassName(n) == [k |-> "MarkClassName", name |-> n, key |-> "", site |-> 0, glyphs |-> <<>>]
MarkClass == [k |-> "MarkClass", name |-> "", key |-> "", site |-> 0, glyphs |-> <<>>]
RawList(gs) == [k |-> "list", name |-> "", key |-> "", site |-> 0, glyphs |-> gs]

\* container.glyphSet(); a MarkClassName reads the shared MarkClass
glyphSet(container, marks) ==
    IF container.k = "MarkClassName" THEN marks[container.name] ELSE container.glyphs

\* The filter environment: the two tables filter_glyph_container writes
Env(refs, marks) == [refs |-> refs, marks |-> marks]

filter_glyphs(glyphs, G) == SelectSeq(glyphs, LAMBDA g : g \in G)

\* index of class `name` in the ordered dict class_name_references, 0 if absent
RefIndex(refs, name) ==
    IF \E i \in 1..Len(refs) : refs[i].name = name
    THEN CHOOSE i \in 1..Len(refs) : refs[i].name = name
    ELSE 0

\* copy_list = self.class_name_references[name] (a defaultdict(list))
CopyList(refs, name) ==
    IF RefIndex(refs, name) = 0 THEN <<>> ELSE refs[RefIndex(refs, name)].copies

\* copy_list.append(copy)
RefAppend(refs, name, copy) ==
    IF RefIndex(refs, name) = 0
    THEN Append(refs, [name |-> name, copies |-> <<copy>>])
    ELSE [refs EXCEPT ![RefIndex(refs, name)].copies = Append(@, copy)]

\* f"{name}_{n}"
Suffixed(name, n) == name \o "_" \o ToString(n)

filter_glyph_container(container, G, env) ==
    CASE container.k = "GlyphName" ->
            [c |-> IF container.glyphs[1] \in G THEN container ELSE GlyphClass(<<>>),
             env |-> env]
      [] container.k \in {"GlyphClass", "list"} ->
            [c |-> [container EXCEPT !.glyphs = filter_glyphs(@, G)], env |-> env]
      [] container.k = "GlyphClassName" ->
            LET copy_list == CopyList(env.refs, container.name)
                copy == [container EXCEPT
                            !.name = Suffixed(container.name, Len(copy_list)),
                            !.key = container.name,
                            !.site = Len(copy_list) + 1,
                            !.glyphs = filter_glyphs(@, G)]
                env2 == [env EXCEPT !.refs = RefAppend(@, container.name,
                                        [name |-> copy.name, glyphs |-> copy.glyphs])]
            IN  [c |-> IF copy.glyphs # <<>> THEN copy ELSE GlyphClass(<<>>),
                 env |-> env2]
      [] container.k = "MarkClassName" ->
            LET kept == filter_glyphs(env.marks[container.name], G)
                env2 == [env EXCEPT !.marks[container.name] = kept]
            IN  [c |-> IF kept # <<>> THEN container ELSE MarkClass, env |-> env2]

RECURSIVE filter_sequence(_, _, _)
\* returns [s |-> the new slots, env |-> the tables afterwards]
filter_sequence(slots, G, env) ==
    IF slots = <<>> THEN [s |-> <<>>, env |-> env]
    ELSE LET first == filter_glyph_container(Head(slots), G, env)
             rest == filter_sequence(Tail(slots), G, first.env)
         IN  [s |-> <<first.c>> \o rest.s, env |-> rest.env]

\* a test that never finds an empty slot
has_no_empty_slots(sequence, marks) == FALSE

has_any_empty_slots(sequence, marks) ==
    \E i \in 1..Len(sequence) : Len(glyphSet(sequence[i], marks)) = 0

-----------------------------------------------------------------------------
(* Statements (fontTools.feaLib.ast).  One record shape for every class:   *)
(*   kind         the class of the statement                               *)
(*   name         block name, lookup name of a LookupReferenceStatement,   *)
(*                class name of a GlyphClassDefinition/MarkClassDefinition, *)
(*                text of a Comment                                        *)
(*   prefix, glyphs, suffix   the context sequences (old_prefix/old_suffix *)
(*                of a ReverseChainSingleSubstStatement); a statement with *)
(*                one container (glyph, glyphclass, base, ligatures,       *)
(*                baseMarks, glyphs1, markAttachment) keeps it in `glyphs` *)
(*                as a sequence of one                                     *)
(*   replacement  replacement/replacements, glyphs2 of a PairPosStatement, *)
(*                markFilteringSet of a LookupFlagStatement                *)
(*   value        the value records of SinglePosStatement.pos, in step     *)
(*                with `glyphs`                                            *)
(*   lookups      lookup names of a chaining rule                          *)
(*   contexts     chainContexts of an Ignore statement                     *)
(*   marks        mark class names of MarkBasePosStatement.marks           *)
(*   lang         (script, language) of a LanguageSystemStatement          *)

Stmt(kind) ==
    [kind |-> kind, name |-> "", prefix |-> <<>>, glyphs |-> <<>>, suffix |-> <<>>,
     replacement |-> <<>>, value |-> <<>>, lookups |-> <<>>, statements |-> <<>>,
     contexts |-> <<>>, marks |-> <<>>, lang |-> <<>>]

Comment(text) == [Stmt("Comment") EXCEPT !.name = text]

BlockKinds == {"FeatureBlock", "LookupBlock", "NestedBlock"}

\* a filter that does not look at the replacement of a ligature
FilteredFieldsInputsOnly(kind) ==
    CASE kind = "LigatureSubst" -> <<"glyphs", "prefix", "suffix">>
      [] kind \in {"ChainContextSubst", "ChainContextPos"} -> <<"prefix", "suffix", "glyphs">>
      [] kind = "SingleSubst" -> <<"prefix", "suffix">>
      [] kind \in {"AlternateSubst", "MultipleSubst"} ->
            <<"glyphs", "replacement", "prefix", "suffix">>
      [] OTHER -> <<"glyphs">>

\* The fields filter_layout filters, in the order of its assignments, and
\* drops the statement for when one of them has an empty slot
FilteredFields(kind) ==
    CASE kind \in {"MarkClassDefinition", "LigatureCaretByIndex", "LigatureCaretByPos",
                   "CursivePos", "MarkBasePos", "MarkLigPos", "MarkMarkPos"} -> <<"glyphs">>
      [] kind = "AlternateSubst" -> <<"glyphs", "replacement", "prefix", "suffix">>
      [] kind \in {"ChainContextSubst", "ChainContextPos"} -> <<"prefix", "suffix", "glyphs">>
      [] kind = "LigatureSubst" -> <<"glyphs", "replacement", "prefix", "suffix">>
      [] kind = "MultipleSubst" -> <<"glyphs", "replacement", "prefix", "suffix">>
      [] kind = "PairPos" -> <<"glyphs", "replacement">>
      [] kind = "ReverseChainSingleSubst" -> <<"prefix", "suffix", "glyphs", "replacement">>
      [] kind = "SingleSubst" -> <<"prefix", "suffix">>
      [] OTHER -> <<>>

RECURSIVE FilterFields(_, _, _, _)
\* st.f = self.filter_sequence(st.f) for each f of fields, in order
FilterFields(st, fields, G, env) ==
    IF fields = <<>> THEN [st |-> st, env |-> env]
    ELSE LET r == filter_sequence(st[Head(fields)], G, env)
         IN  FilterFields([st EXCEPT ![Head(fields)] = r.s], Tail(fields), G, r.env)

AnyEmpty(st, fields, marks) ==
    \E i \in 1..Len(fields) : has_any_empty_slots(st[fields[i]], marks)

\* The positional pairs of a single substitution: zip(originals, replaces)
SubstPairs(st, marks) ==
    LET originals == glyphSet(st.glyphs[1], marks)
        replaces0 == glyphSet(st.replacement[1], marks)
        n == IF Len(replaces0) = 1 THEN Len(originals)
             ELSE IF Len(replaces0) < Len(originals) THEN Len(replaces0)
             ELSE Len(originals)
    IN  [i \in 1..n |-> <<originals[i], IF Len(replaces0) = 1 THEN replaces0[1] ELSE replaces0[i]>>]

RECURSIVE Keys(_)
\* keys of the OrderedDict built from pairs: first occurrence order
Keys(pairs) ==
    IF pairs = <<>> THEN <<>>
    ELSE LET k == Keys(SubSeq(pairs, 1, Len(pairs) - 1))
         IN  DictSet(k, pairs[Len(pairs)][1])

\* value of key k: the last assignment wins
ValueOf(pairs, k) ==
    pairs[CHOOSE i \in 1..Len(pairs) :
            /\ pairs[i][1] = k
            /\ \A j \in (i+1)..Len(pairs) : pairs[j][1] # k][2]

\* a mapping rebuilt from the pairs whose input glyph is kept
filter_single_subst_inputs(st, G, marks) ==
    LET kept == SelectSeq(SubstPairs(st, marks), LAMBDA p : p[1] \in G)
        keys == Keys(kept)
        values == [i \in 1..Len(keys) |-> ValueOf(kept, keys[i])]
    IN  IF Len(keys) = 1
        THEN [st EXCEPT !.glyphs = <<GlyphName(keys[1])>>,
                        !.replacement = <<GlyphName(values[1])>>]
        ELSE [st EXCEPT !.glyphs = <<GlyphClass(keys)>>,
                        !.replacement = <<GlyphClass(values)>>]

filter_single_subst(st, G, marks) ==
    LET kept == SelectSeq(SubstPairs(st, marks), LAMBDA p : p[1] \in G /\ p[2] \in G)
        keys == Keys(kept)
        values == [i \in 1..Len(keys) |-> ValueOf(kept, keys[i])]
    IN  IF Len(keys) = 1
        THEN [st EXCEPT !.glyphs = <<GlyphName(keys[1])>>,
                        !.replacement = <<GlyphName(values[1])>>]
        ELSE [st EXCEPT !.glyphs = <<GlyphClass(keys)>>,
                        !.replacement = <<GlyphClass(values)>>]

RECURSIVE filter_contexts(_, _, _)

\* one context filtered to `c`, put before the result of the contexts after it
AppendContext(c, rest) ==
    [s |-> (IF AnyEmpty(c.st, <<"prefix", "suffix", "glyphs">>, c.env.marks)
            THEN <<>> ELSE <<c.st>>) \o rest.s,
     env |-> rest.env]

FilterContext(tail, G, c) == AppendContext(c, filter_contexts(tail, G, c.env))

\* the loop over st.chainContexts of an Ignore statement
filter_contexts(contexts, G, env) ==
    IF contexts = <<>> THEN [s |-> <<>>, env |-> env]
    ELSE FilterContext(Tail(contexts), G,
            FilterFields(Head(contexts), <<"prefix", "glyphs", "suffix">>, G, env))

\* the statement is kept unless one of `fields` has an empty slot
KeptUnlessEmpty(r, fields) ==
    [keep |-> ~AnyEmpty(r.st, fields, r.env.marks), st |-> r.st, env |-> r.env]

\* SingleSubstStatement, prefix and suffix filtered to r: the mapping is
\* rebuilt from the pairs whose two glyphs are kept
SingleSubstFiltered(r, new) ==
    IF AnyEmpty(r.st, <<"prefix", "suffix">>, r.env.marks)
    THEN [keep |-> FALSE, st |-> r.st, env |-> r.env]
    ELSE [keep |-> new.glyphs[1].glyphs # <<>>, st |-> new, env |-> r.env]

SingleSubstStatement(G, r) ==
    SingleSubstFiltered(r, filter_single_subst(r.st, G, r.env.marks))

\* SinglePosStatement, prefix and suffix filtered to r, st.pos[0][0] to p
SinglePosFiltered(st, p) ==
    KeptUnlessEmpty([st |-> [st EXCEPT !.glyphs = <<p.c>>, !.value = <<@[1]>>],
                     env |-> p.env],
                    <<"prefix", "suffix", "glyphs">>)

SinglePosStatement(glyphs, G, r) ==
    SinglePosFiltered(r.st, filter_glyph_container(glyphs[1], G, r.env))

IgnoreFiltered(st, r) ==
    [keep |-> r.s # <<>>, st |-> [st EXCEPT !.contexts = r.s], env |-> r.env]

\* LookupFlagStatement: markAttachment filtered to a, then markFilteringSet
LookupFlagFiltered(G, a) ==
    IF AnyEmpty(a.st, <<"glyphs">>, a.env.marks)
    THEN [keep |-> FALSE, st |-> a.st, env |-> a.env]
    ELSE KeptUnlessEmpty(FilterFields(a.st, <<"replacement">>, G, a.env),
                         <<"replacement">>)

\* One non-block statement of filter_layout: [keep, st, env]
filter_statement(st, G, env) ==
    CASE st.kind \in {"LanguageSystem", "GlyphClassDefinition"} ->
            [keep |-> FALSE, st |-> st, env |-> env]
      [] st.kind = "SingleSubst" ->
            SingleSubstStatement(G, FilterFields(st, <<"prefix", "suffix">>, G, env))
      [] st.kind = "SinglePos" ->
            SinglePosStatement(st.glyphs, G,
                               FilterFields(st, <<"prefix", "suffix">>, G, env))
      [] st.kind \in {"IgnoreSubst", "IgnorePos"} ->
            IgnoreFiltered(st, filter_contexts(st.contexts, G, env))
      [] st.kind = "LookupFlag" ->
            LookupFlagFiltered(G, FilterFields(st, <<"glyphs">>, G, env))
      [] OTHER ->
            KeptUnlessEmpty(FilterFields(st, FilteredFields(st.kind), G, env),
                            FilteredFields(st.kind))

\* substantive_statements of a filtered block, after the lone-lookupflag rule
Substantive(statements) ==
    LET s == SelectSeq(statements, LAMBDA x : x.kind # "Comment")
    IN  IF Len(s) = 1 /\ s[1].kind = "LookupFlag" THEN <<>> ELSE s

RECURSIVE filter_layout(_, _, _)

\* newstatements.append(st) for a block whose statements were filtered to
\* `inner`, put before the result `rest` of the statements after it
AppendBlock(st, inner, rest) ==
    [s |-> (IF Substantive(inner.s) # <<>> THEN <<[st EXCEPT !.statements = inner.s]>>
            ELSE IF st.kind = "FeatureBlock" THEN <<>>
            ELSE <<[st EXCEPT !.statements = <<Comment("lookupflag 0;")>>]>>) \o rest.s,
     env |-> rest.env,
     lss |-> inner.lss \o rest.lss]

\* a block: st.statements = self.filter_layout(st.statements), then the loop
\* goes on with the tables the inner call left
FilterBlock(st, tail, G, inner) ==
    AppendBlock(st, inner, filter_layout(tail, G, inner.env))

\* newstatements.append(st) for a statement filtered to `one`
AppendStatement(st, one, rest) ==
    [s |-> (IF one.keep THEN <<one.st>> ELSE <<>>) \o rest.s,
     env |-> rest.env,
     lss |-> (IF st.kind = "LanguageSystem" THEN <<st.lang>> ELSE <<>>) \o rest.lss]

FilterOne(st, tail, G, one) ==
    AppendStatement(st, one, filter_layout(tail, G, one.env))

\* returns [s |-> newstatements, env |-> tables, lss |-> language systems met]
filter_layout(statements, G, env) ==
    IF statements = <<>> THEN [s |-> <<>>, env |-> env, lss |-> <<>>]
    ELSE IF Head(statements).kind \in BlockKinds
    THEN FilterBlock(Head(statements), Tail(statements), G,
                     filter_layout(Head(statements).statements, G, env))
    ELSE FilterOne(Head(statements), Tail(statements), G,
                   filter_statement(Head(statements), G, env))

-----------------------------------------------------------------------------
(* _deduplicate_class_defs *)

RECURSIVE Contents(_)
\* keys of by_glyph_set: the distinct sorted contents, by first occurrence
Contents(copies) ==
    IF copies = <<>> THEN <<>>
    ELSE DictSet(Contents(SubSeq(copies, 1, Len(copies) - 1)),
                 Sorted(copies[Len(copies)].glyphs))

\* enumerate(by_glyph_set.items(), start=1): the index of a content
ContentIndex(copies, glyphs) ==
    CHOOSE i \in 1..Len(Contents(copies)) : Contents(copies)[i] = Sorted(glyphs)

\* the name given to the content group of `glyphs` of class class_name
NewClassName(class_name, copies, glyphs) ==
    IF Len(Contents(copies)) = 1 THEN class_name
    ELSE Suffixed(class_name, ContentIndex(copies, glyphs))

GlyphClassDefinition(name, glyphs) ==
    [Stmt("GlyphClassDefinition") EXCEPT !.name = name, !.glyphs = <<GlyphClass(glyphs)>>]

RECURSIVE FreshDefs(_)
FreshDefs(refs) ==
    IF refs = <<>> THEN <<>>
    ELSE LET e == Head(refs)
             c == Contents(e.copies)
         IN  [i \in 1..Len(c) |-> GlyphClassDefinition(NewClassName(e.name, e.copies, c[i]), c[i])]
             \o FreshDefs(Tail(refs))

\* returns [defs |-> fresh_class_defs, refs |-> the copies with their new names]
deduplicate_class_defs(refs) ==
    [defs |-> FreshDefs(refs),
     refs |-> [i \in 1..Len(refs) |->
                 [refs[i] EXCEPT !.copies =
                     [j \in 1..Len(refs[i].copies) |->
                         [@[j] EXCEPT !.name = NewClassName(refs[i].name, refs[i].copies,
                                                            refs[i].copies[j].glyphs)]]]]]

\* The name a copy placed in the tree shows once its glyphclass was renamed
Renamed(c, refs) ==
    IF c.k = "GlyphClassName" /\ c.site > 0
    THEN [c EXCEPT !.name = refs[RefIndex(refs, c.key)].copies[c.site].name]
    ELSE c

RenamedSeq(slots, refs) == [i \in 1..Len(slots) |-> Renamed(slots[i], refs)]

RECURSIVE RenameSites(_, _)
RenameSites(statements, refs) ==
    [i \in 1..Len(statements) |->
        LET st == statements[i]
        IN  [st EXCEPT !.prefix = RenamedSeq(@, refs),
                       !.glyphs = RenamedSeq(@, refs),
                       !.suffix = RenamedSeq(@, refs),
                       !.replacement = RenamedSeq(@, refs),
                       !.contexts = [j \in 1..Len(st.contexts) |->
                                        [prefix |-> RenamedSeq(st.contexts[j].prefix, refs),
                                         glyphs |-> RenamedSeq(st.contexts[j].glyphs, refs),
                                         suffix |-> RenamedSeq(st.contexts[j].suffix, refs)]],
                       !.statements = RenameSites(@, refs)]]

-----------------------------------------------------------------------------
(* clean_layout *)

\* names in statement.lookups (a list whose items are None or lists of lookups)
LookupsOf(statement) ==
    UNION {Range(statement.lookups[i]) : i \in 1..Len(statement.lookups)}

RECURSIVE collect_references(_)
\* the lookup names collect_references(feature) adds to `referenced`
collect_references(feature) ==
    IF feature.kind \notin {"FeatureBlock", "LookupBlock", "VariationBlock"} THEN {}
    ELSE UNION {
            (IF feature.statements[i].kind = "LookupReference"
             THEN {feature.statements[i].name} ELSE {})
            \cup (IF feature.statements[i].kind = "LookupBlock"
                  THEN collect_references(feature.statements[i]) ELSE {})
            \cup LookupsOf(feature.statements[i])
            : i \in 1..Len(feature.statements)}

Referenced(statements) ==
    UNION {collect_references(statements[i]) : i \in 1..Len(statements)}

\* referenced_mark_classes: only a top-level MarkClassDefinition is collected
ReferencedMarkClasses(statements) ==
    {statements[i].name : i \in {j \in 1..Len(statements) :
                                    statements[j].kind = "MarkClassDefinition"}}

\* the statements of an unreferenced lookup nested in a feature, once the
\* pairs of dropped mark classes are gone
FilteredLookupStatements(lookup, markrefs) ==
    LET cut == [i \in 1..Len(lookup.statements) |->
                  IF lookup.statements[i].kind = "MarkBasePos"
                  THEN [lookup.statements[i] EXCEPT !.marks =
                            SelectSeq(@, LAMBDA m : m \in markrefs)]
                  ELSE lookup.statements[i]]
    IN  SelectSeq(cut, LAMBDA st : ~(st.kind = "MarkBasePos" /\ st.marks = <<>>))

Effective(statements) ==
    \E i \in 1..Len(statements) : statements[i].kind \notin {"Comment", "LookupFlag"}

\* newstatements of one feature block
CleanFeature(feature, referenced, markrefs) ==
    LET cut == [i \in 1..Len(feature.statements) |->
                  LET lookup == feature.statements[i]
                  IN  IF lookup.kind # "LookupBlock" \/ lookup.name \in referenced
                      THEN lookup
                      ELSE [lookup EXCEPT !.statements =
                                FilteredLookupStatements(lookup, markrefs)]]
    IN  SelectSeq(cut, LAMBDA lookup :
            \/ lookup.kind # "LookupBlock"
            \/ lookup.name \in referenced
            \/ Effective(lookup.statements))

clean_layout(statements) ==
    LET referenced == Referenced(statements)
        markrefs == ReferencedMarkClasses(statements)
        cut == [i \in 1..Len(statements) |->
                  IF statements[i].kind = "FeatureBlock"
                  THEN [statements[i] EXCEPT !.statements =
                            CleanFeature(statements[i], referenced, markrefs)]
                  ELSE statements[i]]
    IN  SelectSeq(cut, LAMBDA feature :
            /\ ~(feature.kind = "LookupBlock" /\ feature.name \notin referenced)
            /\ (feature.kind = "FeatureBlock" =>
                    \E i \in 1..Len(feature.statements) :
                        feature.statements[i].kind \notin {"Comment", "Script", "Language"}))

\* the statements and tables once the class definitions d are inserted
Cleaned(f, d) ==
    [s |-> clean_layout(Reverse(d.defs) \o RenameSites(f.s, d.refs)),
     env |-> [f.env EXCEPT !.refs = d.refs],
     lss |-> f.lss]

\* f: the result of filter_layout
Regenerated(f) == Cleaned(f, deduplicate_class_defs(f.env.refs))

\* UFOMerger.merge, lines 172-181: filter_layout, the fresh class definitions
\* inserted one by one at index 0, clean_layout.
\* returns [s |-> statements, env |-> tables, lss |-> language systems]
SubsetLayout(statements, G, env) == Regenerated(filter_layout(statements, G, env))

-----------------------------------------------------------------------------
(* perform_layout_closure.  The closure state is                           *)
(*   [incoming, final, env]: incoming_glyphset, final_glyphset, the tables  *)

SubstKinds == {"SingleSubst", "MultipleSubst", "AlternateSubst", "LigatureSubst",
               "ChainContextSubst"}

RECURSIVE AddGlyphs(_, _)
\* incoming_glyphset[glyph] = True; final_glyphset.add(glyph), for each glyph
AddGlyphs(cs, glyphs) ==
    IF glyphs = <<>> THEN cs
    ELSE AddGlyphs([cs EXCEPT !.incoming = DictSet(@, Head(glyphs)),
                              !.final = @ \cup {Head(glyphs)}],
                   Tail(glyphs))

RECURSIVE AddPairs(_, _)
\* the zip loop of a single substitution: an output is added when its input
\* is in final_glyphset at that moment
AddPairs(cs, pairs) ==
    IF pairs = <<>> THEN cs
    ELSE AddPairs(IF Head(pairs)[1] \in cs.final
                  THEN AddGlyphs(cs, <<Head(pairs)[2]>>) ELSE cs,
                  Tail(pairs))

RECURSIVE Flatten(_, _)
\* the glyphs of every slot of a sequence, in order
Flatten(slots, marks) ==
    IF slots = <<>> THEN <<>>
    ELSE glyphSet(Head(slots), marks) \o Flatten(Tail(slots), marks)

\* a filter that narrows the class a named reference shares in place
InPlaceShared(slots, filtered) ==
    [i \in 1..Len(slots) |->
        IF slots[i].k = "GlyphClass" THEN filtered[i]
        ELSE IF filtered[i].k = "GlyphClassName"
             THEN [slots[i] EXCEPT !.glyphs = filtered[i].glyphs]
             ELSE slots[i]]

\* What filter_sequence(slots) leaves in the rule when its result is thrown
\* away: an inline GlyphClass is edited in place, every other slot is not
InPlace(slots, filtered) ==
    [i \in 1..Len(slots) |-> IF slots[i].k = "GlyphClass" THEN filtered[i] ELSE slots[i]]

\* the rule with one of its sequences edited in place by filter_sequence
EditedInPlace(st, field, filtered) == [st EXCEPT ![field] = InPlace(st[field], filtered)]

\* the closure state once filter_glyph_container has updated the tables
WithEnv(cs, env) == [cs EXCEPT !.env = env]

\* a ligature substitution whose replacement is never added
CloseLigatureNoAdd(st, cs, g) ==
    [st |-> EditedInPlace(st, "glyphs", g.s), cs |-> WithEnv(cs, g.env)]

\* LigatureSubstStatement, its input sequence filtered to g
CloseLigature(st, cs, g) ==
    [st |-> EditedInPlace(st, "glyphs", g.s),
     cs |-> IF has_any_empty_slots(g.s, g.env.marks) THEN WithEnv(cs, g.env)
            ELSE AddGlyphs(WithEnv(cs, g.env), glyphSet(st.replacement[1], g.env.marks))]

\* the branches per statement class, for a rule whose prefix and suffix have
\* no empty slot
CloseSubst(st, cs, marks) ==
    CASE st.kind = "AlternateSubst" ->
            [st |-> st,
             cs |-> IF filter_glyphs(glyphSet(st.glyphs[1], marks), cs.final) = <<>>
                    THEN cs ELSE AddGlyphs(cs, glyphSet(st.replacement[1], marks))]
      [] st.kind = "MultipleSubst" ->
            [st |-> st,
             cs |-> IF filter_glyphs(glyphSet(st.glyphs[1], marks), cs.final) = <<>>
                    THEN cs ELSE AddGlyphs(cs, Flatten(st.replacement, marks))]
      [] st.kind = "LigatureSubst" ->
            CloseLigature(st, cs, filter_sequence(st.glyphs, cs.final, cs.env))
      [] st.kind = "SingleSubst" ->
            [st |-> st, cs |-> AddPairs(cs, SubstPairs(st, marks))]
      [] OTHER -> [st |-> st, cs |-> cs]

\* the suffix filtered to s: a rule with an empty suffix slot is passed over
CloseAfterSuffix(st, cs, s) ==
    IF has_any_empty_slots(s.s, s.env.marks)
    THEN [st |-> EditedInPlace(st, "suffix", s.s), cs |-> WithEnv(cs, s.env)]
    ELSE CloseSubst(EditedInPlace(st, "suffix", s.s), WithEnv(cs, s.env), s.env.marks)

\* the prefix filtered to p: the suffix is filtered only when no prefix slot
\* is empty (`or` evaluates its second operand only then)
CloseAfterPrefix(st, cs, p) ==
    IF has_any_empty_slots(p.s, p.env.marks)
    THEN [st |-> EditedInPlace(st, "prefix", p.s), cs |-> WithEnv(cs, p.env)]
    ELSE CloseAfterSuffix(EditedInPlace(st, "prefix", p.s), cs,
                          filter_sequence(st.suffix, cs.final, p.env))

\* One statement that is no block: [st |-> the rule afterwards, cs |-> state]
close_statement(st, cs) ==
    IF st.kind \notin SubstKinds THEN [st |-> st, cs |-> cs]
    ELSE CloseAfterPrefix(st, cs, filter_sequence(st.prefix, cs.final, cs.env))

RECURSIVE perform_layout_closure(_, _)

CloseRest(one, rest) == [s |-> <<one.st>> \o rest.s, cs |-> rest.cs]

\* the loop goes on with the state the statement left
CloseTail(tail, one) == CloseRest(one, perform_layout_closure(tail, one.cs))

\* a statement whose nested statements, if any, were closed to `inner`
CloseOne(st, tail, inner) ==
    CloseTail(tail, close_statement([st EXCEPT !.statements = inner.s], inner.cs))

\* returns [s |-> the statements afterwards, cs |-> the closure state]
perform_layout_closure(statements, cs) ==
    IF statements = <<>> THEN [s |-> <<>>, cs |-> cs]
    ELSE CloseOne(Head(statements), Tail(statements),
                  IF Head(statements).kind \in BlockKinds
                  THEN perform_layout_closure(Head(statements).statements, cs)
                  ELSE [s |-> Head(statements).statements, cs |-> cs])

-----------------------------------------------------------------------------
(* merge_kerning.  groups: group name -> member list; kerning: the          *)
(* insertion-ordered dict as a sequence of <<first, second, value>>.        *)

\* names for which name.startswith("public.kern") holds
Kern1Names == {"public.kern1.foo", "public.kern1.bar"}
Kern2Names == {"public.kern2.foo", "public.kern2.bar"}
PublicKern == Kern1Names \cup Kern2Names

KernIndex(kerning, first, second) ==
    IF \E i \in 1..Len(kerning) : kerning[i][1] = first /\ kerning[i][2] = second
    THEN CHOOSE i \in 1..Len(kerning) : kerning[i][1] = first /\ kerning[i][2] = second
    ELSE 0

\* kerning[(first, second)] = value
KernSet(kerning, first, second, value) ==
    IF KernIndex(kerning, first, second) = 0
    THEN Append(kerning, <<first, second, value>>)
    ELSE [kerning EXCEPT ![KernIndex(kerning, first, second)] = <<first, second, value>>]

\* groups2.get(name, [name])
GroupGet(groups, name) == IF name \in DOMAIN groups THEN groups[name] ELSE <<name>>

\* groups[name] = members
GroupSet(groups, name, members) ==
    [g \in DOMAIN groups \cup {name} |-> IF g = name THEN members ELSE groups[g]]

\* the groups of ufo2 slimmed down to the glyph set
SlimGroups(groups, final) == [g \in DOMAIN groups |-> filter_glyphs(groups[g], final)]

\* new_members of a group of ufo1
NewMembers(members, incoming) == SelectSeq(members, LAMBDA m : ~InSeq(m, incoming))

\* kerning_groups_to_be_cleaned
CleanedGroups(g1, incoming) == {n \in DOMAIN g1 : NewMembers(g1[n], incoming) = <<>>}

\* groups1 after the cleaning loop
CleanGroups(g1, incoming) ==
    [n \in DOMAIN g1 \ CleanedGroups(g1, incoming) |-> NewMembers(g1[n], incoming)]

\* ufo1.kerning after the cleaning
CleanKerning(k1, cleaned) ==
    SelectSeq(k1, LAMBDA e : e[1] \notin cleaned /\ e[2] \notin cleaned)

\* the group update made when a copied pair names a public.kern group.
\* set(groups1[..] + groups2[..]) has no defined order: the members are kept
\* in sorted order here and nothing below depends on the order of a group.
CopyGroup(g1, g2, name, final) ==
    IF name \notin PublicKern THEN g1
    ELSE IF name \notin DOMAIN g1 THEN GroupSet(g1, name, g2[name])
    ELSE GroupSet(g1, name, filter_glyphs(Sorted(g1[name] \o g2[name]), final))

\* a copy test that looks at the left side only
PairCopiedLeft(e, g2, final) == filter_glyphs(GroupGet(g2, e[1]), final) # <<>>

\* does the loop copy this donor pair?
PairCopied(e, g2, final) ==
    /\ filter_glyphs(GroupGet(g2, e[1]), final) # <<>>
    /\ filter_glyphs(GroupGet(g2, e[2]), final) # <<>>

RECURSIVE CopyKerning(_, _, _, _, _)
\* the loop over ufo2.kerning.items(): [groups1, kerning1]
CopyKerning(g1, k1, g2, k2, final) ==
    IF k2 = <<>> THEN [groups1 |-> g1, kerning1 |-> k1]
    ELSE LET e == Head(k2)
         IN  IF ~PairCopied(e, g2, final)
             THEN CopyKerning(g1, k1, g2, Tail(k2), final)
             ELSE CopyKerning(CopyGroup(CopyGroup(g1, g2, e[1], final), g2, e[2], final),
                              KernSet(k1, e[1], e[2], e[3]), g2, Tail(k2), final)

\* returns [groups1, kerning1, groups2]
merge_kerning(g1, k1, g2, k2, incoming, final) ==
    LET slim == SlimGroups(g2, final)
        r == CopyKerning(CleanGroups(g1, incoming),
                         CleanKerning(k1, CleanedGroups(g1, incoming)),
                         slim, k2, final)
    IN  [groups1 |-> r.groups1, kerning1 |-> r.kerning1, groups2 |-> slim]

-----------------------------------------------------------------------------
(* Fonts.  A glyph is [origin, unicodes, components]: origin tells the two  *)
(* versions of a glyph name apart ("ufo1": as the destination had it,      *)
(* "ufo2": the donor's).                                                   *)

Glyph(origin, unicodes, components) ==
    [origin |-> origin, unicodes |-> unicodes, components |-> components]

\* font.keys(), in the font's glyph order
FontKeys(font) == SetToSeq(DOMAIN font, SortedNames)

\* self.existing_handling == s  (a dict never equals a str)
EhIs(eh, s) == ~eh.isdict /\ eh.str = s

EhStr(s) == [isdict |-> FALSE, str |-> s, dict |-> <<>>]
EhDict(d) == [isdict |-> TRUE, str |-> "", dict |-> d]

\* dict.fromkeys(glyphs, True)
FromKeys(glyphs) == Keys([i \in 1..Len(glyphs) |-> <<glyphs[i], TRUE>>])

\* existing_map: the codepoints of ufo1 (the last glyph listing one wins)
ExistingMap(u1) ==
    LET keys == FontKeys(u1)
        cps == UNION {u1[g].unicodes : g \in DOMAIN u1}
    IN  [cp \in cps |->
            keys[CHOOSE i \in 1..Len(keys) :
                    /\ cp \in u1[keys[i]].unicodes
                    /\ \A j \in (i+1)..Len(keys) : cp \notin u1[keys[j]].unicodes]]

RECURSIVE DelAll(_, _)
\* del incoming[glyph] for each glyph: [ok, keys]; a missing key raises KeyError
DelAll(keys, glyphs) ==
    IF glyphs = <<>> THEN [ok |-> TRUE, keys |-> keys]
    ELSE IF ~InSeq(Head(glyphs), keys) THEN [ok |-> FALSE, keys |-> keys]
    ELSE DelAll(DictDel(keys, Head(glyphs)), Tail(glyphs))

RECURSIVE SetAll(_, _)
SetAll(keys, glyphs) ==
    IF glyphs = <<>> THEN keys ELSE SetAll(DictSet(keys, Head(glyphs)), Tail(glyphs))

\* UFOMerger.__post_init__: [ok, incoming, blacklisted, ufo1, final]
post_init(u1, u2, o) ==
    LET glyphs == IF o.glyphs = <<>> /\ o.codepoints = {} THEN FontKeys(u2) ELSE o.glyphs
        existing_map == ExistingMap(u1)
        \* the donor glyphs carrying a requested codepoint, in font order
        hit == SelectSeq(FontKeys(u2), LAMBDA g : u2[g].unicodes \cap o.codepoints # {})
        clash(g) == u2[g].unicodes \cap o.codepoints \cap DOMAIN existing_map
        black == IF EhIs(o.existing_handling, "skip")
                 THEN {g \in Range(hit) : clash(g) # {}} ELSE {}
        to_delete == [n \in DOMAIN u1 |->
                        IF EhIs(o.existing_handling, "replace")
                        THEN {cp \in UNION {clash(g) : g \in Range(hit)} :
                                existing_map[cp] = n}
                        ELSE {}]
        incoming1 == SelectSeq(SetAll(FromKeys(glyphs), hit), LAMBDA g : g \notin black)
        new1 == [n \in DOMAIN u1 |-> [u1[n] EXCEPT !.unicodes = @ \ to_delete[n]]]
        excluded == DelAll(incoming1, o.exclude_glyphs)
        incoming2 == SelectSeq(excluded.keys, LAMBDA g : g \in DOMAIN u2)
    IN  [ok |-> excluded.ok,
         incoming |-> IF excluded.ok THEN incoming2 ELSE excluded.keys,
         blacklisted |-> black,
         ufo1 |-> new1,
         final |-> IF excluded.ok THEN DOMAIN u1 \cup Range(incoming2) ELSE {}]

-----------------------------------------------------------------------------
(* add_language_systems.  features is ufo1.features.text as statements.     *)

LssStatement(pair) == [Stmt("LanguageSystem") EXCEPT !.lang = pair]

\* the donor's declarations put after the destination's as they come
add_language_systems_appended(features, lss) ==
    LET decls == SelectSeq(features, LAMBDA st : st.kind = "LanguageSystem")
    IN  decls \o [i \in 1..Len(lss) |-> LssStatement(lss[i])]
              \o SelectSeq(features, LAMBDA st : st.kind # "LanguageSystem")

add_language_systems(features, lss) ==
    LET at == {i \in 1..Len(features) : features[i].kind = "LanguageSystem"}
        existing == [i \in 1..Len(SelectSeq(features, LAMBDA st : st.kind = "LanguageSystem"))
                        |-> SelectSeq(features, LAMBDA st : st.kind = "LanguageSystem")[i].lang]
        added == SelectSeq(Keys([i \in 1..Len(lss) |-> <<lss[i], TRUE>>]),
                           LAMBDA pair : ~InSeq(pair, existing))
        new_lss == existing \o added
        dflt == <<"DFLT", "dflt">>
        hoisted == IF InSeq(dflt, new_lss)
                   THEN LET i == CHOOSE k \in 1..Len(new_lss) :
                                    new_lss[k] = dflt /\ \A j \in 1..(k-1) : new_lss[j] # dflt
                        IN  <<dflt>> \o SubSeq(new_lss, 1, i - 1)
                                     \o SubSeq(new_lss, i + 1, Len(new_lss))
                   ELSE new_lss
        first == IF at = {} THEN 1 ELSE CHOOSE i \in at : \A j \in at : i <= j
        last == IF at = {} THEN 0 ELSE CHOOSE i \in at : \A j \in at : j <= i
    IN  IF lss = <<>> \/ added = <<>> THEN features
        ELSE SubSeq(features, 1, first - 1)
             \o [i \in 1..Len(hoisted) |-> LssStatement(hoisted[i])]
             \o SubSeq(features, last + 1, Len(features))

-----------------------------------------------------------------------------
(* merge_set / merge_dict.  lib: key -> list of names (the two list keys)   *)
(* or key -> [glyph -> value] (the two dict keys)                          *)

merge_set(l1, l2, name, glyph, create_if_not_in_ufo1) ==
    IF name \notin DOMAIN l2 \/ ~InSeq(glyph, l2[name]) THEN l1
    ELSE IF name \notin DOMAIN l1 /\ ~create_if_not_in_ufo1 THEN l1
    ELSE LET have == IF name \in DOMAIN l1 THEN l1[name] ELSE <<>>
         IN  [k \in DOMAIN l1 \cup {name} |->
                IF k = name THEN DictSet(have, glyph) ELSE l1[k]]

merge_dict(l1, l2, name, glyph, create_if_not_in_ufo1) ==
    IF name \notin DOMAIN l2 \/ glyph \notin DOMAIN l2[name] THEN l1
    ELSE IF name \notin DOMAIN l1 /\ ~create_if_not_in_ufo1 THEN l1
    ELSE LET have == IF name \in DOMAIN l1 THEN l1[name] ELSE <<>>
         IN  [k \in DOMAIN l1 \cup {name} |->
                IF k = name
                THEN [g \in DOMAIN have \cup {glyph} |->
                        IF g = glyph THEN l2[name][glyph] ELSE have[g]]
                ELSE l1[k]]

\* the four lib merges made for one copied glyph
MergeLib(l1, l2, glyph) ==
    merge_dict(
        merge_dict(
            merge_set(merge_set(l1, l2, "public.glyphOrder", glyph, FALSE),
                      l2, "public.skipExportGlyphs", glyph, TRUE),
            l2, "public.postscriptNames", glyph, TRUE),
        l2, "public.openTypeCategories", glyph, TRUE)

RECURSIVE MergeLibAll(_, _, _)
MergeLibAll(l1, l2, glyphs) ==
    IF glyphs = <<>> THEN l1
    ELSE MergeLibAll(MergeLib(l1, l2, Head(glyphs)), l2, Tail(glyphs))

\* a copy loop without the `continue` of the "skip" mode
CopiedAlways(eh, incoming, layer1) == incoming

\* the glyphs the copy loop of a layer does not `continue` past
Copied(eh, incoming, layer1) ==
    SelectSeq(incoming, LAMBDA g : ~(EhIs(eh, "skip") /\ g \in DOMAIN layer1))

\* a layer of ufo1 after the copy loop
CopyLayer(layer1, layer2, copied) ==
    [g \in DOMAIN layer1 \cup Range(copied) |->
        IF g \in Range(copied) THEN layer2[g] ELSE layer1[g]]

-----------------------------------------------------------------------------
(* merge_ufos and UFOMerger.merge, one action per phase                    *)

MaxRounds == 10

\* the depth of nested close_components calls the interpreter allows
MaxDepth == 6

LayoutModes == {"subset", "closure", "ignore"}

\* fontTools' asFea(): a reference to a named class is written as its name
asFeaSlots(slots) ==
    [i \in 1..Len(slots) |->
        IF slots[i].k = "GlyphClassName"
        THEN [slots[i] EXCEPT !.glyphs = <<>>, !.key = "", !.site = 0]
        ELSE slots[i]]

RECURSIVE asFea(_)
\* the text of the statements: the placeholder comment and a lookupflag
\* statement without flags are both written "lookupflag 0;"
asFea(statements) ==
    [i \in 1..Len(statements) |->
        LET st == IF statements[i] = Comment("lookupflag 0;")
                  THEN Stmt("LookupFlag") ELSE statements[i]
        IN  [st EXCEPT !.prefix = asFeaSlots(@),
                       !.glyphs = asFeaSlots(@),
                       !.suffix = asFeaSlots(@),
                       !.replacement = asFeaSlots(@),
                       !.contexts = [j \in 1..Len(st.contexts) |->
                                        [prefix |-> asFeaSlots(st.contexts[j].prefix),
                                         glyphs |-> asFeaSlots(st.contexts[j].glyphs),
                                         suffix |-> asFeaSlots(st.contexts[j].suffix)]],
                       !.statements = asFea(@)]]

\* features that are parsed whatever the layout handling is
ParsedAlways(layout_handling, text) == text

\* "Set up UFO2 features": the donor's feature text is parsed unless the
\* layout is ignored, and then ufo2_features is an empty FeatureFile
ParsedFeatures(layout_handling, text) ==
    IF layout_handling # "ignore" THEN text ELSE <<>>

\* merge_ufos up to UFOMerger(...): the option check, then __post_init__
MergeUfos ==
    /\ pc = "call"
    /\ IF opts.layout_handling \notin LayoutModes
       THEN /\ pc' = "error"
            /\ err' = "ValueError"
            /\ UNCHANGED <<ufo1, incoming_glyphset, final_glyphset, blacklisted,
                           ufo2_features>>
       ELSE LET r == post_init(ufo1, ufo2, opts)
            IN  /\ pc' = IF r.ok THEN "merge" ELSE "error"
                /\ err' = IF r.ok THEN "" ELSE "KeyError"
                /\ ufo1' = r.ufo1
                /\ incoming_glyphset' = r.incoming
                /\ final_glyphset' = r.final
                /\ blacklisted' = r.blacklisted
                /\ ufo2_features' = IF r.ok
                                    THEN ParsedFeatures(opts.layout_handling,
                                                        ufo2_features_orig)
                                    ELSE <<>>
    /\ UNCHANGED <<ufo2, ufo1_orig, features1_orig, opts, ufo2_features_orig, class_name_references,
                   mark_classes, ufo2_languagesystems, features1, groups1, kerning1,
                   groups2, kerning2, kern_orig, rounds, count, stack, todo,
                   layers1, layers2, lib1, lib2, pass1>>

\* merge(): the early return and the choice of the first phase
MergeBegin ==
    /\ pc = "merge"
    /\ pc' = IF incoming_glyphset = <<>> THEN "done"
             ELSE IF opts.layout_handling = "closure" THEN "closure"
             ELSE IF opts.layout_handling # "ignore" THEN "filter"
             ELSE "components"
    /\ count' = IF incoming_glyphset # <<>> /\ opts.layout_handling = "closure"
                THEN Cardinality(final_glyphset) ELSE count
    /\ todo' = incoming_glyphset
    /\ UNCHANGED <<err, ufo1, ufo2, ufo1_orig, features1_orig, opts, incoming_glyphset, final_glyphset,
                   blacklisted, ufo2_features, ufo2_features_orig,
                   class_name_references, mark_classes, ufo2_languagesystems,
                   features1, groups1, kerning1, groups2, kerning2, kern_orig, rounds,
                   stack, layers1, layers2, lib1, lib2, pass1>>

\* one turn of the `while True` loop of the closure
ClosureRound ==
    /\ pc = "closure"
    /\ \E r \in {perform_layout_closure(ufo2_features,
                    [incoming |-> incoming_glyphset, final |-> final_glyphset,
                     env |-> Env(class_name_references, mark_classes)])} :
       LET stable == Cardinality(r.cs.final) = count
       IN  /\ ufo2_features' = r.s
           /\ incoming_glyphset' = r.cs.incoming
           /\ final_glyphset' = r.cs.final
           /\ class_name_references' = r.cs.env.refs
           /\ mark_classes' = r.cs.env.marks
           /\ rounds' = rounds + 1
           /\ pc' = IF stable THEN "filter"
                    ELSE IF rounds + 1 > MaxRounds THEN "error" ELSE "closure"
           /\ err' = IF ~stable /\ rounds + 1 > MaxRounds THEN "ValueError" ELSE err
           /\ count' = IF ~stable /\ rounds + 1 <= MaxRounds
                       THEN Cardinality(r.cs.final) ELSE count
    /\ UNCHANGED <<ufo1, ufo2, ufo1_orig, features1_orig, opts, blacklisted, ufo2_features_orig,
                   ufo2_languagesystems, features1, groups1, kerning1, groups2,
                   kerning2, kern_orig, stack, todo, layers1, layers2, lib1, lib2,
                   pass1>>

\* a filter pass that counts the component bases of the incoming glyphs as
\* present
FilterLayoutWithBases ==
    /\ pc = "filter"
    /\ \E f \in {filter_layout(ufo2_features,
                               final_glyphset \cup
                                   UNION {Range(ufo2[g].components) :
                                            g \in Range(incoming_glyphset) \cap DOMAIN ufo2},
                               Env(class_name_references, mark_classes))} :
           /\ ufo2_features' = f.s
           /\ class_name_references' = f.env.refs
           /\ mark_classes' = f.env.marks
           /\ ufo2_languagesystems' = ufo2_languagesystems \o f.lss
    /\ pc' = "dedup"
    /\ UNCHANGED <<err, ufo1, ufo2, ufo1_orig, features1_orig, opts, incoming_glyphset, final_glyphset,
                   blacklisted, ufo2_features_orig, features1, groups1, kerning1,
                   groups2, kerning2, kern_orig, rounds, count, stack, todo,
                   layers1, layers2, lib1, lib2, pass1>>

\* self.ufo2_features.statements = self.filter_layout(...)
FilterLayout ==
    /\ pc = "filter"
    /\ \E f \in {filter_layout(ufo2_features, final_glyphset,
                               Env(class_name_references, mark_classes))} :
           /\ ufo2_features' = f.s
           /\ class_name_references' = f.env.refs
           /\ mark_classes' = f.env.marks
           /\ ufo2_languagesystems' = ufo2_languagesystems \o f.lss
    /\ pc' = "dedup"
    /\ UNCHANGED <<err, ufo1, ufo2, ufo1_orig, features1_orig, opts, incoming_glyphset, final_glyphset,
                   blacklisted, ufo2_features_orig, features1, groups1, kerning1,
                   groups2, kerning2, kern_orig, rounds, count, stack, todo,
                   layers1, layers2, lib1, lib2, pass1>>

\* fresh_class_defs = _deduplicate_class_defs(...), each inserted at index 0
Deduplicate ==
    /\ pc = "dedup"
    /\ LET d == deduplicate_class_defs(class_name_references)
       IN  /\ ufo2_features' = Reverse(d.defs) \o RenameSites(ufo2_features, d.refs)
           /\ class_name_references' = d.refs
    /\ pc' = "clean"
    /\ UNCHANGED <<err, ufo1, ufo2, ufo1_orig, features1_orig, opts, incoming_glyphset, final_glyphset,
                   blacklisted, ufo2_features_orig, mark_classes, ufo2_languagesystems,
                   features1, groups1, kerning1, groups2, kerning2, kern_orig, rounds,
                   count, stack, todo, layers1, layers2, lib1, lib2, pass1>>

\* self.clean_layout(...); self.ufo1.features.text += ...asFea();
\* self.add_language_systems()
CleanLayout ==
    /\ pc = "clean"
    /\ ufo2_features' = clean_layout(ufo2_features)
    /\ features1' = add_language_systems(features1 \o asFea(ufo2_features'),
                                         ufo2_languagesystems)
    /\ todo' = incoming_glyphset
    /\ pc' = "components"
    /\ UNCHANGED <<err, ufo1, ufo2, ufo1_orig, features1_orig, opts, incoming_glyphset, final_glyphset,
                   blacklisted, ufo2_features_orig, class_name_references, mark_classes,
                   ufo2_languagesystems, groups1, kerning1, groups2, kerning2,
                   kern_orig, rounds, count, stack, layers1, layers2, lib1, lib2,
                   pass1>>

\* close_components(glyph) is entered: self.ufo2[glyph] raises KeyError for a
\* name the donor lacks, and the interpreter bounds the depth of the calls
Call(stk, glyph) ==
    IF glyph \notin DOMAIN ufo2 THEN [pc |-> "error", err |-> "KeyError", stack |-> stk]
    ELSE IF Len(stk) >= MaxDepth
    THEN [pc |-> "error", err |-> "RecursionError", stack |-> stk]
    ELSE [pc |-> "components", err |-> "", stack |-> Append(stk, [glyph |-> glyph, i |-> 1])]

\* for glyph in list(self.incoming_glyphset.keys()): self.close_components(glyph)
ComponentsNext ==
    /\ pc = "components"
    /\ stack = <<>>
    /\ todo # <<>>
    /\ LET c == Call(stack, Head(todo))
       IN  pc' = c.pc /\ err' = c.err /\ stack' = c.stack
    /\ todo' = Tail(todo)
    /\ UNCHANGED <<ufo1, ufo2, ufo1_orig, features1_orig, opts, incoming_glyphset, final_glyphset,
                   blacklisted, ufo2_features, ufo2_features_orig,
                   class_name_references, mark_classes, ufo2_languagesystems,
                   features1, groups1, kerning1, groups2, kerning2, kern_orig, rounds,
                   count, layers1, layers2, lib1, lib2, pass1>>

\* close_components without its first branch
ComponentBranchNoAdd(base_glyph, final, eh, u1) ==
    IF EhIs(eh, "replace") THEN "replace"
    ELSE IF base_glyph \in DOMAIN u1 THEN "warn"
    ELSE "none"

\* which branch close_components takes for a component's base glyph
ComponentBranch(base_glyph, final, eh, u1) ==
    IF base_glyph \notin final THEN "add"
    ELSE IF EhIs(eh, "replace") THEN "replace"
    ELSE IF base_glyph \in DOMAIN u1 THEN "warn"
    ELSE "none"

\* one turn of `for comp in components` in the innermost running call
ComponentsStep ==
    /\ pc = "components"
    /\ stack # <<>>
    /\ LET top == stack[Len(stack)]
           components == ufo2[top.glyph].components
           rest == SubSeq(stack, 1, Len(stack) - 1)
       IN  IF top.i > Len(components)
           THEN /\ stack' = rest
                /\ UNCHANGED <<pc, err, incoming_glyphset, final_glyphset>>
           ELSE LET base_glyph == components[top.i]
                    branch == ComponentBranch(base_glyph, final_glyphset,
                                              opts.existing_handling, ufo1)
                    stepped == Append(rest, [top EXCEPT !.i = @ + 1])
                    c == Call(stepped, base_glyph)
                IN  IF branch \in {"add", "replace"}
                    THEN /\ final_glyphset' = final_glyphset \cup {base_glyph}
                         /\ incoming_glyphset' = DictSet(incoming_glyphset, base_glyph)
                         /\ pc' = c.pc /\ err' = c.err /\ stack' = c.stack
                    ELSE /\ stack' = stepped
                         /\ UNCHANGED <<pc, err, incoming_glyphset, final_glyphset>>
    /\ UNCHANGED <<ufo1, ufo2, ufo1_orig, features1_orig, opts, blacklisted, ufo2_features,
                   ufo2_features_orig, class_name_references, mark_classes,
                   ufo2_languagesystems, features1, groups1, kerning1, groups2,
                   kerning2, kern_orig, rounds, count, todo, layers1, layers2, lib1,
                   lib2, pass1>>

\* the loop over self.blacklisted, then self.merge_kerning()
MergeKerning ==
    /\ pc = "components"
    /\ stack = <<>>
    /\ todo = <<>>
    /\ ufo2' = [g \in DOMAIN ufo2 |->
                  IF g \in blacklisted /\ InSeq(g, incoming_glyphset)
                  THEN [ufo2[g] EXCEPT !.unicodes = {}] ELSE ufo2[g]]
    /\ LET r == merge_kerning(groups1, kerning1, groups2, kerning2,
                              incoming_glyphset, final_glyphset)
       IN  /\ groups1' = r.groups1
           /\ kerning1' = r.kerning1
           /\ groups2' = r.groups2
    /\ kern_orig' = [groups |-> groups1, kerning |-> kerning1, groups2 |-> groups2]
    /\ pc' = "copy"
    /\ UNCHANGED <<err, ufo1, ufo1_orig, features1_orig, opts, incoming_glyphset, final_glyphset,
                   blacklisted, ufo2_features, ufo2_features_orig,
                   class_name_references, mark_classes, ufo2_languagesystems,
                   features1, kerning2, rounds, count, stack, todo, layers1, layers2,
                   lib1, lib2, pass1>>

\* "Now do the add": the default layer with the lib keys, then the other
\* layers.  (`ufo2_layer.name is self.ufo2.layers.defaultLayer` compares a
\* name with a layer and never holds, so the second loop meets the default
\* layer again; by then it holds every incoming glyph in its copied version
\* and the loop changes nothing in it.)
CopyGlyphs ==
    /\ pc = "copy"
    /\ LET copied == Copied(opts.existing_handling, incoming_glyphset, ufo1)
       IN  /\ ufo1' = CopyLayer(ufo1, ufo2, copied)
           /\ lib1' = MergeLibAll(lib1, lib2, copied)
    /\ layers1' = [l \in DOMAIN layers1 |->
                     IF l \notin DOMAIN layers2 THEN layers1[l]
                     ELSE CopyLayer(layers1[l], layers2[l],
                            Copied(opts.existing_handling,
                                   SelectSeq(incoming_glyphset,
                                             LAMBDA g : g \in DOMAIN layers2[l]),
                                   layers1[l]))]
    /\ pc' = "done"
    /\ UNCHANGED <<err, ufo2, ufo1_orig, features1_orig, opts, incoming_glyphset, final_glyphset,
                   blacklisted, ufo2_features, ufo2_features_orig,
                   class_name_references, mark_classes, ufo2_languagesystems,
                   features1, groups1, kerning1, groups2, kerning2, kern_orig, rounds,
                   count, stack, todo, layers2, lib2, pass1>>

-----------------------------------------------------------------------------
(* The fonts and calls the merge is checked on *)

\* the largest number of component references in the donor
MaxEdges == 3

\* the largest number of glyphs named in the `glyphs` argument
MaxGlyphs == 3

NoKerning == [groups |-> <<>>, kerning |-> <<>>, groups2 |-> <<>>]

\* rule constructors
SingleSubst(prefix, in, out, suffix) ==
    [Stmt("SingleSubst") EXCEPT !.prefix = prefix, !.glyphs = <<in>>,
                                !.replacement = <<out>>, !.suffix = suffix]
LigatureSubst(prefix, glyphs, out, suffix) ==
    [Stmt("LigatureSubst") EXCEPT !.prefix = prefix, !.glyphs = glyphs,
                                  !.replacement = <<out>>, !.suffix = suffix]
MultipleSubst(prefix, in, outs, suffix) ==
    [Stmt("MultipleSubst") EXCEPT !.prefix = prefix, !.glyphs = <<in>>,
                                  !.replacement = outs, !.suffix = suffix]
AlternateSubst(prefix, in, out, suffix) ==
    [Stmt("AlternateSubst") EXCEPT !.prefix = prefix, !.glyphs = <<in>>,
                                   !.replacement = <<out>>, !.suffix = suffix]
Block(kind, name, statements) ==
    [Stmt(kind) EXCEPT !.name = name, !.statements = statements]
LookupReference(name) == [Stmt("LookupReference") EXCEPT !.name = name]

\* a font whose glyph g has the components Edges gives it
FontOf(K, origin, Edges, unicodes) ==
    [g \in K |-> Glyph(origin, unicodes[g],
                       SetToSeq({e[2] : e \in {x \in Edges : x[1] = g}}, SortedNames))]

NoUnicodes == [g \in Range(SortedNames) |-> {}]

\* the component graphs: at most n references, no glyph its own component
Graphs(K, bases, n) ==
    {E \in SUBSET {e \in K \X bases : e[1] # e[2]} : Cardinality(E) <= n}

Selections(names, n) == {SetToSeq(S, SortedNames) : S \in {T \in SUBSET names : Cardinality(T) <= n}}

Options(glyphs, exclude, codepoints, layout, eh) ==
    [glyphs |-> glyphs, exclude_glyphs |-> exclude, codepoints |-> codepoints,
     layout_handling |-> layout, existing_handling |-> eh]

\* the existing_handling values: the two modes and per-glyph mappings
Handlings ==
    {EhStr("skip"), EhStr("replace"),
     EhDict([n \in {"B", "DEFAULT"} |-> IF n = "B" THEN "skip" ELSE "replace"]),
     EhDict([n \in {"C", "DEFAULT"} |-> IF n = "C" THEN "replace" ELSE "skip"])}

\* the donor feature files of the merges with layout handling
DonorFeatures ==
    { \* feature ccmp { sub A A' B' by C; } ccmp;
      <<Block("FeatureBlock", "ccmp",
              <<LigatureSubst(<<GlyphName("A")>>, <<GlyphName("A"), GlyphName("B")>>,
                              GlyphName("C"), <<>>)>>)>>,
      \* lookup ccmp1 { sub A B by C; sub A D by E; } ccmp1;
      \* feature ccmp { lookup ccmp1; } ccmp;
      <<Block("LookupBlock", "ccmp1",
              <<LigatureSubst(<<>>, <<GlyphName("A"), GlyphName("B")>>, GlyphName("C"), <<>>),
                LigatureSubst(<<>>, <<GlyphName("A"), GlyphName("D")>>, GlyphName("E"), <<>>)>>),
        Block("FeatureBlock", "ccmp", <<LookupReference("ccmp1")>>)>>,
      \* feature calt { sub [P Q] A' by B; sub A by P; } calt;
      <<Block("FeatureBlock", "calt",
              <<SingleSubst(<<GlyphClass(<<"P", "Q">>)>>, GlyphName("A"), GlyphName("B"), <<>>),
                SingleSubst(<<>>, GlyphName("A"), GlyphName("P"), <<>>)>>)>>,
      \* feature ss01 { sub B by C; sub A by B; sub C from [D E]; } ss01;
      <<Block("FeatureBlock", "ss01",
              <<SingleSubst(<<>>, GlyphName("B"), GlyphName("C"), <<>>),
                SingleSubst(<<>>, GlyphName("A"), GlyphName("B"), <<>>),
                AlternateSubst(<<>>, GlyphName("C"), GlyphClass(<<"D", "E">>), <<>>)>>)>>,
      \* @X = [A B]; feature liga { sub @X' C by [P Q]; sub D by A B; } liga;
      <<[Stmt("GlyphClassDefinition") EXCEPT !.name = "X",
                                             !.glyphs = <<GlyphClass(<<"A", "B">>)>>],
        Block("FeatureBlock", "liga",
              <<SingleSubst(<<>>, GlyphClassName("X", <<"A", "B">>), GlyphClass(<<"P", "Q">>),
                            <<GlyphName("C")>>),
                MultipleSubst(<<>>, GlyphName("D"), <<GlyphName("A"), GlyphName("B")>>, <<>>)>>)>>,
      \* feature ss01 { featureNames { name "Single story a"; }; sub A by B; } ss01;
      <<Block("FeatureBlock", "ss01",
              <<Block("NestedBlock", "featureNames",
                      <<[Stmt("FeatureName") EXCEPT !.name = "Single story a"]>>),
                SingleSubst(<<>>, GlyphName("A"), GlyphName("B"), <<>>)>>)>> }

GlyphNames == {"A", "B", "C", "D"}
LayoutGlyphs == {"A", "B", "C", "D", "E", "P", "Q"}

\* everything but the fonts and the call
InitRest ==
    /\ pc = "call"
    /\ err = ""
    /\ ufo1_orig = ufo1
    /\ features1_orig = features1
    /\ incoming_glyphset = <<>>
    /\ final_glyphset = {}
    /\ blacklisted = {}
    /\ ufo2_features = <<>>
    /\ class_name_references = <<>>
    /\ ufo2_languagesystems = <<>>
    /\ kern_orig = NoKerning
    /\ rounds = 0
    /\ count = 0
    /\ stack = <<>>
    /\ todo = <<>>
    /\ pass1 = <<>>

\* no kerning, one background layer, the glyph order in the lib
InitPlain ==
    /\ groups1 = <<>> /\ kerning1 = <<>> /\ groups2 = <<>> /\ kerning2 = <<>>
    /\ layers2 = [l \in {"bg"} |-> [g \in DOMAIN ufo2 \cap {"B", "C"} |-> "ufo2"]]
    /\ layers1 = IF "B" \in DOMAIN ufo1
                 THEN [l \in {"bg"} |-> [g \in {"B"} |-> "ufo1"]] ELSE <<>>
    /\ lib2 = [k \in {"public.glyphOrder"} |-> FontKeys(ufo2)]
    /\ lib1 = [k \in {"public.glyphOrder"} |-> FontKeys(ufo1)]

\* merges of glyphs and components, layout ignored
InitGlyphs ==
    /\ \E K1 \in {{}, {"A"}, {"B"}, {"B", "C"}},
          E \in Graphs({"B", "C", "D"}, GlyphNames, MaxEdges) :
          /\ ufo1 = FontOf(K1, "ufo1", {}, NoUnicodes)
          /\ ufo2 = FontOf({"B", "C", "D"}, "ufo2", E, NoUnicodes)
    /\ \E glyphs \in Selections(GlyphNames, MaxGlyphs), eh \in Handlings :
          opts = Options(glyphs, <<>>, {}, "ignore", eh)
    /\ ufo2_features_orig = <<>>
    /\ features1 = <<>>
    /\ mark_classes = <<>>
    /\ InitPlain
    /\ InitRest

\* the feature text of the destination when merge_ufos is called: the
\* merges that ignore a donor's layout start from a destination with rules
InitialFeatures ==
    IF opts.layout_handling = "ignore" /\ ufo2_features_orig # <<>>
    THEN <<LssStatement(<<"latn", "dflt">>),
           Block("FeatureBlock", "ccmp",
                 <<SingleSubst(<<>>, GlyphName("A"), GlyphName("B"), <<>>)>>)>>
    ELSE <<>>

\* merges with layout handling
InitLayoutMerge ==
    /\ \E K1 \in {{}, {"A"}, {"Q"}, {"C"}}, E \in Graphs({"A", "B"}, {"D", "Q"}, 1) :
          /\ ufo1 = FontOf(K1, "ufo1", {}, NoUnicodes)
          /\ ufo2 = FontOf(LayoutGlyphs, "ufo2", E, NoUnicodes)
    /\ \E glyphs \in Selections({"A", "B", "C", "D"}, MaxGlyphs),
          eh \in {EhStr("skip"), EhStr("replace")},
          layout \in {"subset", "closure", "ignore"} :
          opts = Options(glyphs, <<>>, {}, layout, eh)
    /\ ufo2_features_orig \in DonorFeatures
    /\ features1 = InitialFeatures
    /\ mark_classes = <<>>
    /\ InitPlain
    /\ InitRest

\* calls of merge_ufos with option values of every kind, recognized or not,
\* and with excluded names in and out of the selection and of the donor, on
\* fonts without components
InitOptions ==
    /\ ufo1 = FontOf({"B"}, "ufo1", {}, NoUnicodes)
    /\ ufo2 = FontOf({"B", "C", "D"}, "ufo2", {}, NoUnicodes)
    /\ \E glyphs \in Selections(GlyphNames, MaxGlyphs),
          layout \in {"ignore", "subset", "everything"},
          exclude \in {<<>>, <<"C">>, <<"A">>},
          eh \in {EhStr("skip"), EhStr("overwrite")} :
          opts = Options(glyphs, exclude, {}, layout, eh)
    /\ ufo2_features_orig = <<>>
    /\ features1 = <<>>
    /\ mark_classes = <<>>
    /\ InitPlain
    /\ InitRest

\* test_28: the destination has A and B, B mapped to U+0042 (66); the donor
\* has B mapped to U+0042 and C mapped to U+0043 (67)
Unicodes28 == [g \in Range(SortedNames) |-> IF g = "B" THEN {66} ELSE IF g = "C" THEN {67} ELSE {}]

\* merges that select by codepoint, with and without names and exclusions
InitCodepoints ==
    /\ ufo1 = FontOf({"A", "B"}, "ufo1", {}, [Unicodes28 EXCEPT !["C"] = {}])
    /\ ufo2 = FontOf({"B", "C"}, "ufo2", {}, Unicodes28)
    /\ \E glyphs \in {<<>>, <<"C">>},
          exclude \in {<<>>, <<"B">>},
          codepoints \in {{66}, {67}, {66, 67}},
          eh \in {EhStr("skip"), EhStr("replace")} :
          opts = Options(glyphs, exclude, codepoints, "ignore", eh)
    /\ ufo2_features_orig = <<>>
    /\ features1 = <<>>
    /\ mark_classes = <<>>
    /\ InitPlain
    /\ InitRest

\* merges from a donor whose glyphs were subset already and whose features
\* were not: original_glyphlist names the glyphs the features may mention.
\* feature ccmp { sub A by C; } ccmp;
InitSubsetDonor ==
    /\ ufo1 = FontOf({}, "ufo1", {}, NoUnicodes)
    /\ ufo2 = FontOf({"A", "B"}, "ufo2", {}, NoUnicodes)
    /\ \E glyphs \in Selections({"A", "B"}, MaxGlyphs), layout \in {"subset", "closure"} :
          opts = [glyphs |-> glyphs, exclude_glyphs |-> <<>>, codepoints |-> {},
                  layout_handling |-> layout, existing_handling |-> EhStr("replace"),
                  original_glyphlist |-> <<"A", "B", "C">>]
    /\ ufo2_features_orig =
          <<Block("FeatureBlock", "ccmp",
                  <<SingleSubst(<<>>, GlyphName("A"), GlyphName("C"), <<>>)>>)>>
    /\ features1 = <<>>
    /\ mark_classes = <<>>
    /\ InitPlain
    /\ InitRest

Init == InitGlyphs \/ InitLayoutMerge \/ InitOptions \/ InitCodepoints \/ InitSubsetDonor

Next ==
    \/ MergeUfos
    \/ MergeBegin
    \/ ClosureRound
    \/ FilterLayout
    \/ Deduplicate
    \/ CleanLayout
    \/ ComponentsNext
    \/ ComponentsStep
    \/ MergeKerning
    \/ CopyGlyphs

Spec == Init /\ [][Next]_vars

-----------------------------------------------------------------------------
(* What the call selected, and what components lead to *)

\* the selected donor glyphs: incoming_glyphset as __post_init__ leaves it
Selected == Range(post_init(ufo1_orig, ufo2, opts).incoming)

Done == pc = "done" /\ err = ""

RECURSIVE LayoutClosed(_, _, _)
\* the `while True` loop of the closure run to its end: the last cs
LayoutClosed(statements, cs, n) ==
    LET r == perform_layout_closure(statements, cs)
    IN  IF Cardinality(r.cs.final) = Cardinality(cs.final) \/ n = 0 THEN r.cs
        ELSE LayoutClosed(r.s, r.cs, n - 1)

\* the selected glyphs and, in closure mode, those the layout closure added
Seeds ==
    IF opts.layout_handling = "closure" /\ Selected # {}
    THEN Range(LayoutClosed(ufo2_features_orig,
                   [incoming |-> post_init(ufo1_orig, ufo2, opts).incoming,
                    final |-> post_init(ufo1_orig, ufo2, opts).final,
                    env |-> Env(<<>>, <<>>)], MaxRounds).incoming)
    ELSE Selected

Bases(g) == IF g \in DOMAIN ufo2 THEN Range(ufo2[g].components) ELSE {}

RECURSIVE ReachFrom(_, _)
\* S and every base reachable from S in the donor without passing through a
\* glyph of `blocked`
ReachFrom(S, blocked) ==
    LET new == {b \in UNION {Bases(g) : g \in S} : b \notin S /\ b \notin blocked}
    IN  IF new = {} THEN S ELSE ReachFrom(S \cup new, blocked)

\* the glyphs of the destination the traversal does not descend through
Untouched ==
    IF EhIs(opts.existing_handling, "replace") THEN {} ELSE DOMAIN ufo1_orig

\* C1 (as amended): after a successful merge the glyph names of the
\* destination are those it had, plus the selected donor glyphs (and the
\* glyphs of the layout closure), plus the component bases reachable from
\* them in the donor, where unless existing_handling is "replace" the
\* traversal neither adds nor descends through a base the destination already
\* had.
C1_GlyphSet ==
    Done => DOMAIN ufo1 = DOMAIN ufo1_orig \cup ReachFrom(Seeds, Untouched)

\* C1 as the specification words it: every base reachable in the donor from a
\* selected glyph is in the destination, under every policy.
C1_AllReachable ==
    Done => DOMAIN ufo1 = DOMAIN ufo1_orig \cup ReachFrom(Seeds, {})

\* a merge that added a base through a component and stopped at a base the
\* destination already had, whose donor version has a base the destination
\* lacks
C1_Witness ==
    /\ Done
    /\ DOMAIN ufo1 \ (DOMAIN ufo1_orig \cup Seeds) # {}
    /\ ReachFrom(Seeds, {}) \ DOMAIN ufo1 # {}

\* C2: a selected donor glyph whose name the destination already has is left
\* as it was under "skip" and becomes the donor's glyph under "replace"; a
\* selected glyph the destination lacks is inserted under both.
C2_ExistingHandling ==
    Done =>
        \A g \in Selected :
            /\ (g \in DOMAIN ufo1_orig /\ EhIs(opts.existing_handling, "skip"))
                   => (g \in DOMAIN ufo1 /\ ufo1[g] = ufo1_orig[g])
            /\ (g \in DOMAIN ufo1_orig /\ EhIs(opts.existing_handling, "replace"))
                   => (g \in DOMAIN ufo1 /\ ufo1[g] = ufo2[g])
            /\ (g \notin DOMAIN ufo1_orig /\ ~opts.existing_handling.isdict)
                   => (g \in DOMAIN ufo1 /\ ufo1[g] = ufo2[g])

\* a finished "skip" merge that selected a glyph the destination had and one
\* it lacked
C2_Witness ==
    /\ Done
    /\ EhIs(opts.existing_handling, "skip")
    /\ \E g, h \in Selected :
          /\ g \in DOMAIN ufo1_orig /\ ufo1[g].origin = "ufo1"
          /\ h \notin DOMAIN ufo1_orig /\ ufo1[h].origin = "ufo2"

\* the policy a mapping gives a glyph
PolicyOf(eh, g) ==
    IF g \in DOMAIN eh.dict THEN eh.dict[g] ELSE eh.dict["DEFAULT"]

\* C3: with a mapping as existing_handling, an existing selected glyph mapped
\* to "skip" keeps the destination version and one mapped to "replace",
\* directly or through DEFAULT, takes the donor version.
C3_PerGlyphHandling ==
    (Done /\ opts.existing_handling.isdict) =>
        \A g \in Selected \cap DOMAIN ufo1_orig :
            /\ PolicyOf(opts.existing_handling, g) = "skip" => ufo1[g] = ufo1_orig[g]
            /\ PolicyOf(opts.existing_handling, g) = "replace" => ufo1[g] = ufo2[g]

-----------------------------------------------------------------------------
(* Merges of fonts with kerning *)

\* the largest number of glyphs named when kerning is merged
MaxKernGlyphs == 2

\* the groups dicts giving each name of `names` one of its member lists, or
\* leaving it out (<<>> in `choice` stands for "no such group")
GroupsOver(names, choice) ==
    {[n \in {m \in names : f[m] # <<>>} |-> f[n]] : f \in [names -> choice]}

WellFormedGroups(groups, font) ==
    \A n \in DOMAIN groups : Range(groups[n]) \subseteq DOMAIN font

\* every side of every pair is a glyph or a group of the font
WellFormedKerning(kerning, groups, font) ==
    \A i \in 1..Len(kerning) :
        \A j \in 1..2 : kerning[i][j] \in DOMAIN font \cup DOMAIN groups

DestKernings ==
    {<<>>,
     <<<<"A", "X", 40>>>>,
     <<<<"public.kern1.foo", "X", 40>>>>,
     <<<<"public.kern1.foo", "public.kern2.foo", 40>>, <<"X", "A", 41>>>>}

DonorKernings ==
    {<<>>,
     <<<<"A", "B", 20>>>>,
     <<<<"public.kern1.bar", "B", 20>>, <<"A", "X", 21>>>>,
     <<<<"public.kern1.foo", "public.kern2.bar", 20>>>>,
     <<<<"public.kern1.bar", "public.kern2.bar", 20>>, <<"B", "A", 21>>>>}

InitKern ==
    /\ \E K1 \in {{}, {"X"}, {"A", "X"}} :
          /\ ufo1 = FontOf(K1, "ufo1", {}, NoUnicodes)
          /\ ufo2 = FontOf({"A", "B", "X"}, "ufo2", {}, NoUnicodes)
    /\ \E glyphs \in Selections({"A", "B", "X"}, MaxKernGlyphs),
          eh \in {EhStr("skip"), EhStr("replace")} :
          opts = Options(glyphs, <<>>, {}, "ignore", eh)
    /\ groups1 \in {g \in GroupsOver({"public.kern1.foo"}, {<<>>, <<"X">>, <<"A">>, <<"A", "X">>})
                          : WellFormedGroups(g, ufo1)}
                   \cup {g \in GroupsOver({"public.kern1.foo", "public.kern2.foo"},
                                          {<<>>, <<"X">>})
                          : WellFormedGroups(g, ufo1)}
    /\ kerning1 \in {k \in DestKernings : WellFormedKerning(k, groups1, ufo1)}
    /\ groups2 \in {f @@ g @@ h :
                      f \in GroupsOver({"public.kern1.foo"}, {<<>>, <<"A", "B">>}),
                      g \in GroupsOver({"public.kern1.bar"}, {<<>>, <<"A", "X">>, <<"B">>}),
                      h \in GroupsOver({"public.kern2.bar"}, {<<>>, <<"B">>})}
    /\ kerning2 \in {k \in DonorKernings : WellFormedKerning(k, groups2, ufo2)}
    /\ ufo2_features_orig = <<>>
    /\ features1 = <<>>
    /\ layers2 = [l \in {"bg"} |-> [g \in DOMAIN ufo2 \cap {"B", "C"} |-> "ufo2"]]
    /\ layers1 = <<>>
    /\ lib2 = [k \in {"public.glyphOrder"} |-> FontKeys(ufo2)]
    /\ lib1 = [k \in {"public.glyphOrder"} |-> FontKeys(ufo1)]
    /\ mark_classes = <<>>
    /\ InitRest

NextKern ==
    \/ MergeUfos
    \/ MergeBegin
    \/ ComponentsNext
    \/ ComponentsStep
    \/ MergeKerning
    \/ CopyGlyphs

SpecKern == InitKern /\ [][NextKern]_vars

\* merge_kerning has run
AfterKerning == pc \in {"copy", "done"}

\* what a side of a donor pair resolves to: the members of the donor group
\* of that name, or the name itself
Resolve(side) ==
    IF side \in DOMAIN kern_orig.groups2 THEN Range(kern_orig.groups2[side]) ELSE {side}

\* C4: merge_kerning copies a donor pair into the destination if and only if
\* both of its sides resolve to at least one glyph of the final glyph set.
C4_PairCopiedIff ==
    AfterKerning =>
        \A e \in Range(kerning2) :
            e \in Range(kerning1)
                <=> /\ Resolve(e[1]) \cap final_glyphset # {}
                    /\ Resolve(e[2]) \cap final_glyphset # {}

\* a pair whose partner is a glyph the destination had is copied, a pair
\* whose partner was not selected and is not in the destination is not
C4_Witness ==
    /\ AfterKerning
    /\ \E e, d \in Range(kerning2) :
          /\ e[2] \in DOMAIN ufo1_orig \ Selected /\ e \in Range(kerning1)
          /\ d[2] \in DOMAIN ufo2 \ final_glyphset /\ d \notin Range(kerning1)

\* does the pair name the glyph, directly or through a group holding it?
RefersTo(e, g, groups) ==
    \E j \in 1..2 : e[j] = g \/ (e[j] \in DOMAIN groups /\ InSeq(g, groups[e[j]]))

\* C5: once the kerning is merged, no pair and no group the destination had
\* for an imported glyph is left: every pair naming the glyph directly or
\* through a group holding it, and every group holding it, is gone unless the
\* donor supplies it.
C5_StaleKerningDropped ==
    AfterKerning =>
        \A g \in Range(incoming_glyphset) :
            /\ \A e \in Range(kern_orig.kerning) :
                  RefersTo(e, g, kern_orig.groups) => e \notin Range(kerning1)
            /\ \A n \in DOMAIN kern_orig.groups :
                  InSeq(g, kern_orig.groups[n])
                      => (n \in DOMAIN groups1 => n \in DOMAIN kern_orig.groups2)

Kern1Side(n) == n \in Kern1Names
Kern2Side(n) == n \in Kern2Names

\* no glyph belongs to two groups of the same side
OneGroupPerSide(groups) ==
    \A n, m \in DOMAIN groups :
        (n # m /\ ((Kern1Side(n) /\ Kern1Side(m)) \/ (Kern2Side(n) /\ Kern2Side(m))))
            => Range(groups[n]) \cap Range(groups[m]) = {}

\* C6: if in each font alone no glyph belongs to two kerning groups of the
\* same side, then after merge_kerning no glyph of the destination does.
C6_NoDualMembership ==
    (AfterKerning /\ OneGroupPerSide(kern_orig.groups)
                  /\ OneGroupPerSide(kern_orig.groups2))
        => OneGroupPerSide(groups1)

-----------------------------------------------------------------------------
(* The subsetting pass on feature files of every rule kind *)

\* the largest number of glyphs named when a feature file is subset
MaxLayoutGlyphs == 2

Rule(kind, prefix, glyphs, replacement, suffix) ==
    [Stmt(kind) EXCEPT !.prefix = prefix, !.glyphs = glyphs,
                       !.replacement = replacement, !.suffix = suffix]

Context(prefix, glyphs, suffix) == [prefix |-> prefix, glyphs |-> glyphs, suffix |-> suffix]

\* the slots a context is built from: a glyph, an inline class, a reference
\* to @X = [A B], a reference to the mark class @M
Slots == {GlyphName("A"), GlyphClass(<<"A", "B">>), GlyphClassName("X", <<"A", "B">>),
          MarkClassName("M")}

\* one rule of every kind filter_layout knows, with the slot c in its context
RulesWith(c) ==
    { SingleSubst(<<c>>, GlyphName("B"), GlyphName("C"), <<>>),
      SingleSubst(<<>>, GlyphClass(<<"A", "B">>), GlyphClass(<<"B", "C">>), <<c>>),
      MultipleSubst(<<c>>, GlyphName("B"), <<GlyphName("A"), GlyphName("C")>>, <<>>),
      AlternateSubst(<<>>, GlyphName("B"), GlyphClass(<<"A", "C">>), <<c>>),
      LigatureSubst(<<>>, <<c, GlyphName("B")>>, GlyphName("C"), <<>>),
      [Rule("ChainContextSubst", <<c>>, <<GlyphName("B")>>, <<>>, <<>>)
          EXCEPT !.lookups = <<<<"l1">>>>],
      [Rule("ChainContextPos", <<>>, <<GlyphName("B")>>, <<>>, <<c>>)
          EXCEPT !.lookups = <<<<"l1">>>>],
      Rule("ReverseChainSingleSubst", <<c>>, <<GlyphClass(<<"A", "B">>)>>,
           <<GlyphClass(<<"B", "C">>)>>, <<>>),
      [Stmt("IgnoreSubst") EXCEPT !.contexts =
          <<Context(<<c>>, <<GlyphName("B")>>, <<>>),
            Context(<<>>, <<GlyphName("C")>>, <<>>)>>],
      [Stmt("IgnorePos") EXCEPT !.contexts =
          <<Context(<<>>, <<GlyphName("B")>>, <<c>>)>>],
      [Rule("SinglePos", <<c>>, <<GlyphName("B"), GlyphName("C")>>, <<>>, <<>>)
          EXCEPT !.value = <<10, 20>>],
      Rule("PairPos", <<>>, <<c>>, <<GlyphName("B")>>, <<>>),
      Rule("CursivePos", <<>>, <<c>>, <<>>, <<>>),
      [Rule("MarkBasePos", <<>>, <<c>>, <<>>, <<>>) EXCEPT !.marks = <<"M">>],
      Rule("MarkLigPos", <<>>, <<c>>, <<>>, <<>>),
      Rule("MarkMarkPos", <<>>, <<c>>, <<>>, <<>>),
      Rule("LigatureCaretByPos", <<>>, <<c>>, <<>>, <<>>),
      Rule("LookupFlag", <<>>, <<c>>, <<>>, <<>>) }

Rules == UNION {RulesWith(c) : c \in Slots}

\* the rules of the feature block
SecondRules ==
    { <<SingleSubst(<<GlyphClassName("X", <<"A", "B">>)>>, GlyphName("A"), GlyphName("C"), <<>>)>>,
      \* lookup l2 { @X = [B C]; sub @X @X' B' by C; } l2;
      <<Block("LookupBlock", "l2",
              <<[Stmt("GlyphClassDefinition") EXCEPT
                    !.name = "X", !.glyphs = <<GlyphClass(<<"B", "C">>)>>],
                LigatureSubst(<<GlyphClassName("X", <<"B", "C">>)>>,
                              <<GlyphClassName("X", <<"B", "C">>), GlyphName("B")>>,
                              GlyphName("C"), <<>>)>>)>>,
      <<Rule("LookupFlag", <<>>, <<>>, <<>>, <<>>),
        SingleSubst(<<>>, GlyphName("B"), GlyphName("A"), <<>>)>> }

\* languagesystem DFLT dflt; @X = [A B]; markClass [A C] <anchor> @M;
\* lookup l1 { r1 } l1; feature f { r2; lookup l1; } f;
FeatureFile(r1, r2) ==
    << LssStatement(<<"DFLT", "dflt">>),
       [Stmt("GlyphClassDefinition") EXCEPT !.name = "X",
                                            !.glyphs = <<GlyphClass(<<"A", "B">>)>>],
       [Stmt("MarkClassDefinition") EXCEPT !.name = "M",
                                           !.glyphs = <<GlyphClass(<<"A", "C">>)>>],
       Block("LookupBlock", "l1", <<r1>>),
       Block("FeatureBlock", "f", r2 \o <<LookupReference("l1")>>) >>

InitLayout ==
    /\ ufo1 = FontOf({}, "ufo1", {}, NoUnicodes)
    /\ ufo2 = FontOf({"A", "B", "C"}, "ufo2", {}, NoUnicodes)
    /\ \E glyphs \in Selections({"A", "B", "C"}, MaxLayoutGlyphs),
          layout \in {"subset", "closure"} :
          opts = Options(glyphs, <<>>, {}, layout, EhStr("replace"))
    /\ \E r1 \in Rules, r2 \in SecondRules : ufo2_features_orig = FeatureFile(r1, r2)
    /\ features1 = <<>>
    /\ InitPlain
    /\ InitRest
    /\ mark_classes = [m \in {"M"} |-> <<"A", "C">>]

\* Parser.parse() of a written feature file: a reference to a named class is
\* bound to the definition of that name, a reference to a mark class to the
\* glyphs of the markClass statements of that name
ParsedClass(text, name) ==
    LET at == {i \in 1..Len(text) :
                  text[i].kind = "GlyphClassDefinition" /\ text[i].name = name}
    IN  IF at = {} THEN <<>>
        ELSE text[CHOOSE i \in at : \A j \in at : j <= i].glyphs[1].glyphs

ParsedSlots(slots, text) ==
    [i \in 1..Len(slots) |->
        IF slots[i].k = "GlyphClassName"
        THEN GlyphClassName(slots[i].name, ParsedClass(text, slots[i].name))
        ELSE slots[i]]

RECURSIVE ParsedStatements(_, _)
ParsedStatements(statements, text) ==
    [i \in 1..Len(statements) |->
        LET st == statements[i]
        IN  [st EXCEPT !.prefix = ParsedSlots(@, text),
                       !.glyphs = ParsedSlots(@, text),
                       !.suffix = ParsedSlots(@, text),
                       !.replacement = ParsedSlots(@, text),
                       !.contexts = [j \in 1..Len(st.contexts) |->
                                        Context(ParsedSlots(st.contexts[j].prefix, text),
                                                ParsedSlots(st.contexts[j].glyphs, text),
                                                ParsedSlots(st.contexts[j].suffix, text))],
                       !.statements = ParsedStatements(@, text)]]

RECURSIVE ParsedMarks(_, _)
ParsedMarks(text, name) ==
    IF text = <<>> THEN <<>>
    ELSE (IF Head(text).kind = "MarkClassDefinition" /\ Head(text).name = name
          THEN Flatten(Head(text).glyphs, <<>>) ELSE <<>>)
         \o ParsedMarks(Tail(text), name)

Parse(text) ==
    [statements |-> ParsedStatements(text, text),
     marks |-> [m \in DOMAIN mark_classes |-> ParsedMarks(text, m)]]

\* the subsetting pass run once more, on the feature file the first pass
\* wrote, with the same glyph set
SubsetAgain ==
    /\ pc = "components"
    /\ opts.layout_handling = "subset"
    /\ pass1 = <<>>
    /\ ufo2_features # <<>>
    /\ \E parsed \in {Parse(asFea(ufo2_features))} :
       \E r \in {SubsetLayout(parsed.statements, final_glyphset,
                              Env(<<>>, parsed.marks))} :
           /\ ufo2_features' = r.s
           /\ class_name_references' = r.env.refs
           /\ mark_classes' = r.env.marks
    /\ pass1' = ufo2_features
    /\ pc' = "again"
    /\ UNCHANGED <<err, ufo1, ufo2, ufo1_orig, features1_orig, opts, incoming_glyphset, final_glyphset,
                   blacklisted, ufo2_features_orig, ufo2_languagesystems, features1,
                   groups1, kerning1, groups2, kerning2, kern_orig, rounds, count,
                   stack, todo, layers1, layers2, lib1, lib2>>

NextLayout ==
    \/ MergeUfos
    \/ MergeBegin
    \/ ClosureRound
    \/ FilterLayout
    \/ Deduplicate
    \/ CleanLayout
    \/ SubsetAgain

SpecLayout == InitLayout /\ [][NextLayout]_vars

RECURSIVE AllStatements(_)
\* the statements of a rule tree, at every depth
AllStatements(statements) ==
    UNION {{statements[i]} \cup AllStatements(statements[i].statements)
           : i \in 1..Len(statements)}

\* the kinds of statement with a prefix, an input or a suffix
RuleKinds ==
    {"SingleSubst", "MultipleSubst", "AlternateSubst", "LigatureSubst",
     "ChainContextSubst", "ChainContextPos", "ReverseChainSingleSubst", "SinglePos",
     "PairPos", "CursivePos", "MarkBasePos", "MarkLigPos", "MarkMarkPos",
     "IgnoreSubst", "IgnorePos"}

RulesOf(statements) == {st \in AllStatements(statements) : st.kind \in RuleKinds}

\* every slot of the sequence resolves to at least one glyph
SlotsLive(sequence) ==
    \A i \in 1..Len(sequence) : glyphSet(sequence[i], mark_classes) # <<>>

\* C7: in the rule tree filter_layout returns, every slot of the prefix, the
\* input and the suffix of every rule, of every kind and at every depth,
\* resolves to a non-empty glyph set.
C7_NoEmptySlotSurvives ==
    pc = "dedup" =>
        \A st \in RulesOf(ufo2_features) :
            /\ SlotsLive(st.prefix) /\ SlotsLive(st.glyphs) /\ SlotsLive(st.suffix)
            /\ \A j \in 1..Len(st.contexts) :
                  /\ SlotsLive(st.contexts[j].prefix)
                  /\ SlotsLive(st.contexts[j].glyphs)
                  /\ SlotsLive(st.contexts[j].suffix)

RECURSIVE CountRules(_)
\* the number of rules of a rule tree
CountRules(statements) ==
    IF statements = <<>> THEN 0
    ELSE (IF Head(statements).kind \in RuleKinds THEN 1 ELSE 0)
         + CountRules(Head(statements).statements) + CountRules(Tail(statements))

\* the filter dropped a rule of a nested block and kept a rule with a context
C7_Witness ==
    /\ pc = "dedup"
    /\ CountRules(ufo2_features) < CountRules(ufo2_features_orig)
    /\ \E st \in RulesOf(ufo2_features) : st.prefix # <<>> \/ st.suffix # <<>>

\* the slots of a statement, wherever they sit
SlotsOf(st) ==
    Range(st.prefix) \cup Range(st.glyphs) \cup Range(st.suffix) \cup Range(st.replacement)
    \cup UNION {Range(st.contexts[j].prefix) \cup Range(st.contexts[j].glyphs)
                \cup Range(st.contexts[j].suffix) : j \in 1..Len(st.contexts)}

\* the references to named classes in a rule tree
ClassSites(statements) ==
    {c \in UNION {SlotsOf(st) : st \in AllStatements(statements)} : c.k = "GlyphClassName"}

\* the top-level definitions of the class named n
DefsNamed(n) ==
    {i \in 1..Len(ufo2_features) :
        ufo2_features[i].kind = "GlyphClassDefinition" /\ ufo2_features[i].name = n}

\* the site points to one definition, which has the site's content
PointsTo(c) ==
    /\ Cardinality(DefsNamed(c.name)) = 1
    /\ \A i \in DefsNamed(c.name) :
          Range(ufo2_features[i].glyphs[1].glyphs) = Range(c.glyphs)

\* the filtered contents of the donor's references to the class named key
SiteContents(key) ==
    {Range(filter_glyphs(c.glyphs, final_glyphset)) :
        c \in {d \in ClassSites(ufo2_features_orig) : d.name = key}}

\* C8: after filtering and deduplication two reference sites of one original
\* class point to two definitions with distinct names if their filtered
\* contents differ and to one shared definition if the contents are equal; a
\* class whose sites all give one content keeps its name, otherwise the
\* definitions are named name_<n>.
C8_NamedClassSoundness ==
    pc = "clean" =>
        /\ \A s, t \in ClassSites(ufo2_features) :
              s.key = t.key =>
                  /\ PointsTo(s) /\ PointsTo(t)
                  /\ (Range(s.glyphs) # Range(t.glyphs)) => (s.name # t.name)
                  /\ (Range(s.glyphs) = Range(t.glyphs)) => (s.name = t.name)
        /\ \A s \in ClassSites(ufo2_features) :
              IF Cardinality(SiteContents(s.key)) = 1
              THEN s.name = s.key
              ELSE \E n \in 1..Len(CopyList(class_name_references, s.key)) :
                      s.name = Suffixed(s.key, n)

\* two sites of @X with different contents, each with its own definition
C8_Witness ==
    /\ pc = "clean"
    /\ \E s, t \in ClassSites(ufo2_features) :
          /\ s.key = t.key
          /\ Range(s.glyphs) # Range(t.glyphs)
          /\ s.name # t.name
    /\ \E s, t \in ClassSites(ufo2_features) :
          s.key = t.key /\ s.site # t.site /\ s.name = t.name

\* C9: the subsetting pass applied with the same glyph set to the feature
\* file it produced returns the same feature file (the same text).
C9_Idempotent ==
    pc = "again" => asFea(ufo2_features) = asFea(pass1)

\* the glyphs a donor rule produces from inputs of the glyph set G
Produced(st, G) ==
    IF st.kind = "SingleSubst"
    THEN {p[2] : p \in {q \in Range(SubstPairs(st, mark_classes)) : q[1] \in G}}
    ELSE Range(Flatten(st.replacement, mark_classes))

\* every slot of the prefix, the input and the suffix has a glyph of G
LiveIn(st, G) ==
    \A c \in Range(st.prefix) \cup Range(st.glyphs) \cup Range(st.suffix) :
        Range(glyphSet(c, mark_classes)) \cap G # {}

\* C10: after a merge in closure mode the final glyph set is closed under the
\* donor's single, multiple, alternate and ligature substitutions: what a
\* rule whose slots all meet the set produces is in the set and in the
\* destination.
C10_ClosedUnderSubstitution ==
    (Done /\ opts.layout_handling = "closure") =>
        \A st \in AllStatements(ufo2_features_orig) :
            (/\ st.kind \in {"SingleSubst", "MultipleSubst", "AlternateSubst",
                             "LigatureSubst"}
             /\ LiveIn(st, final_glyphset))
                => /\ Produced(st, final_glyphset) \subseteq final_glyphset
                   /\ Produced(st, final_glyphset) \subseteq DOMAIN ufo1

-----------------------------------------------------------------------------
(* The closure loop on substitution chains.  The donor rules are            *)
(*   sub N[k] by N[k+1]; ... sub N[2] by N[3]; sub N[1] by N[2];            *)
(* written last link first, so that a round of the closure adds one glyph,  *)
(* or first link first, so that one round adds them all.                    *)

\* the longest chain
MaxChain == 11

ChainLengths ==
    1..(IF MaxChain < Len(SortedNames) THEN MaxChain ELSE Len(SortedNames) - 1)

\* the k rules of a chain, first link first
Chain(k) ==
    [i \in 1..k |-> SingleSubst(<<>>, GlyphName(SortedNames[i]),
                                GlyphName(SortedNames[i + 1]), <<>>)]

InitClosure ==
    /\ ufo1 = FontOf({}, "ufo1", {}, NoUnicodes)
    /\ ufo2 = FontOf(Range(SortedNames), "ufo2", {}, NoUnicodes)
    /\ \E k \in ChainLengths, start \in 1..3, backwards \in BOOLEAN :
          /\ opts = Options(<<SortedNames[start]>>, <<>>, {}, "closure", EhStr("replace"))
          /\ ufo2_features_orig =
                <<Block("FeatureBlock", "calt",
                        IF backwards THEN Reverse(Chain(k)) ELSE Chain(k))>>
    /\ features1 = <<>>
    /\ mark_classes = <<>>
    /\ InitPlain
    /\ InitRest

NextClosure ==
    \/ MergeUfos
    \/ MergeBegin
    \/ ClosureRound
    \/ FilterLayout
    \/ Deduplicate
    \/ CleanLayout

SpecClosure == InitClosure /\ [][NextClosure]_vars

\* C11: the closure loop runs at most 10 rounds: the merge never starts an
\* 11th round, and once the loop is left without an error the count of
\* rounds is at most 10.
C11_AtMostTenRounds == rounds <= MaxRounds

-----------------------------------------------------------------------------
(* Ligature substitutions of the donor under the two layout modes *)

\* the donor's ligature substitutions whose slots are glyph names
LigatureRules ==
    {st \in AllStatements(ufo2_features_orig) :
        /\ st.kind = "LigatureSubst"
        /\ \A c \in Range(st.prefix) \cup Range(st.glyphs) \cup Range(st.suffix) :
              c.k = "GlyphName"}

\* the glyphs a rule has to match
Inputs(st) ==
    Range(Flatten(st.prefix, mark_classes)) \cup Range(Flatten(st.glyphs, mark_classes))
        \cup Range(Flatten(st.suffix, mark_classes))

Out(st) == st.replacement[1].glyphs[1]

\* the rule is in the feature text of the destination
Emitted(st) == st \in AllStatements(features1)

\* nothing but the rule st can bring its replacement into the destination
OnlyBy(st) ==
    /\ Out(st) \notin UNION {Bases(g) : g \in DOMAIN ufo2}
    /\ \A r \in LigatureRules \ {st} : Out(r) # Out(st)

\* the three cases of C12 for one rule, where Known is the set of glyphs the
\* replacement must be outside of for the rule to count as "C not selected"
LigatureCases(st, Known) ==
    /\ (Inputs(st) \subseteq Selected /\ Out(st) \notin Known) =>
          IF opts.layout_handling = "subset"
          THEN ~Emitted(st) /\ Out(st) \notin DOMAIN ufo1 \ DOMAIN ufo1_orig
          ELSE Emitted(st) /\ Out(st) \in DOMAIN ufo1
    /\ (/\ Inputs(st) \ (Selected \cup DOMAIN ufo1_orig) # {}
        /\ Out(st) \notin Selected \cup DOMAIN ufo1_orig
        /\ OnlyBy(st)) =>
          ~Emitted(st) /\ Out(st) \notin DOMAIN ufo1

-----------------------------------------------------------------------------
(* The lookup  lookup ccmp1 { sub A B by C; sub A D by E; } ccmp1;          *)
(* referenced by  feature ccmp { lookup ccmp1; } ccmp;                      *)

RuleABC == LigatureSubst(<<>>, <<GlyphName("A"), GlyphName("B")>>, GlyphName("C"), <<>>)
RuleADE == LigatureSubst(<<>>, <<GlyphName("A"), GlyphName("D")>>, GlyphName("E"), <<>>)

\* the donor is that feature file and the merge ran in subset mode
SubsetOfCcmp1 ==
    /\ Done
    /\ opts.layout_handling = "subset"
    /\ ufo2_features_orig = <<Block("LookupBlock", "ccmp1", <<RuleABC, RuleADE>>),
                              Block("FeatureBlock", "ccmp", <<LookupReference("ccmp1")>>)>>

\* the lookup blocks named ccmp1 in the feature text of the destination
EmittedCcmp1 ==
    {b \in AllStatements(features1) : b.kind = "LookupBlock" /\ b.name = "ccmp1"}

-----------------------------------------------------------------------------
\* C14: with layout_handling "ignore" the donor's rules are neither parsed
\* nor merged: the feature text of the destination is what it was, and the
\* glyphs added are the selected glyphs and the component bases
\* close_components collects for them (see C1), none because of a rule.
C14_IgnoreLayout ==
    (Done /\ opts.layout_handling = "ignore") =>
        /\ ufo2_features = <<>>
        /\ features1 = features1_orig
        /\ DOMAIN ufo1 \ DOMAIN ufo1_orig
              = ReachFrom(Selected, Untouched) \ DOMAIN ufo1_orig

\* a donor with a live rule merged into a destination with rules of its
\* own: sub A B by C with A and B selected, C left out
C14_Witness ==
    /\ Done
    /\ opts.layout_handling = "ignore"
    /\ features1 # <<>>
    /\ \E st \in LigatureRules :
          Inputs(st) \subseteq Selected /\ Out(st) \notin DOMAIN ufo1
    /\ DOMAIN ufo1 \ DOMAIN ufo1_orig # {}

-----------------------------------------------------------------------------
(* Language systems.  The destination and the donor both declare language   *)
(* systems in front of one feature; the destination's text is well formed:  *)
(* no declaration twice, and (DFLT, dflt) first when it is there.           *)

\* the longest list of declarations of the donor
MaxLss == 3

Dflt == <<"DFLT", "dflt">>

LssPairs == {Dflt, <<"latn", "dflt">>, <<"dev2", "dflt">>, <<"dev2", "NEP">>}

SeqsUpTo(S, n) == UNION {[1..k -> S] : k \in 0..n}

WellFormedLss(s) ==
    /\ \A i, j \in 1..Len(s) : s[i] = s[j] => i = j
    /\ \A i \in 1..Len(s) : s[i] = Dflt => i = 1

LssStatements(s) == [i \in 1..Len(s) |-> LssStatement(s[i])]

\* the declarations, with the comment "# Latin" after the first one or without
Annotated(decls, between) ==
    IF between /\ decls # <<>>
    THEN <<Head(decls), [Stmt("Comment") EXCEPT !.name = "# Latin"]>> \o Tail(decls)
    ELSE decls

InitLss ==
    /\ ufo1 = FontOf({"A", "B"}, "ufo1", {}, NoUnicodes)
    /\ ufo2 = FontOf({"C", "D"}, "ufo2", {}, NoUnicodes)
    /\ \E glyphs \in {<<>>, <<"C">>}, layout \in {"subset", "closure"} :
          opts = Options(glyphs, <<>>, {}, layout, EhStr("replace"))
    /\ \E d \in {s \in SeqsUpTo(LssPairs, 2) : WellFormedLss(s)}, between \in BOOLEAN :
          features1 = Annotated(LssStatements(d), between)
             \o <<Block("FeatureBlock", "ccmp",
                        <<SingleSubst(<<>>, GlyphName("A"), GlyphName("B"), <<>>)>>)>>
    /\ \E n \in SeqsUpTo(LssPairs, MaxLss) :
          ufo2_features_orig = LssStatements(n)
             \o <<Block("FeatureBlock", "ccmp",
                        <<SingleSubst(<<>>, GlyphName("C"), GlyphName("D"), <<>>)>>)>>
    /\ mark_classes = <<>>
    /\ InitPlain
    /\ InitRest

NextLss ==
    \/ MergeUfos
    \/ MergeBegin
    \/ ClosureRound
    \/ FilterLayout
    \/ Deduplicate
    \/ CleanLayout

SpecLss == InitLss /\ [][NextLss]_vars

\* the declarations of a feature text, in order
LssOf(features) ==
    LET decls == SelectSeq(features, LAMBDA st : st.kind = "LanguageSystem")
    IN  [i \in 1..Len(decls) |-> decls[i].lang]

RECURSIVE Once(_)
\* s without the later occurrences of a declaration
Once(s) ==
    IF s = <<>> THEN <<>>
    ELSE LET front == Once(SubSeq(s, 1, Len(s) - 1))
         IN  IF InSeq(s[Len(s)], front) THEN front ELSE Append(front, s[Len(s)])

WithoutDflt(s) == SelectSeq(s, LAMBDA pair : pair # Dflt)

-----------------------------------------------------------------------------
(* Lookups left without a rule *)

\* the lookup blocks of the output, at any depth
LookupBlocks(statements) ==
    {b \in AllStatements(statements) : b.kind = "LookupBlock"}

\* the block holds a rule: something else than comments and lookup flags
HasLiveRule(b) ==
    \E i \in 1..Len(b.statements) : b.statements[i].kind \notin {"Comment", "LookupFlag"}

\* C16: after cleanup no lookup block without a live rule is in the output,
\* no lookup reference names a lookup that is not in the output, and no
\* feature block consists of lookup references only to such lookups.
C16_EmptyLookupUnreferenced ==
    pc = "components" =>
        /\ \A b \in LookupBlocks(ufo2_features) : HasLiveRule(b)
        /\ \A r \in AllStatements(ufo2_features) :
              r.kind = "LookupReference" =>
                  \E b \in LookupBlocks(ufo2_features) : b.name = r.name /\ HasLiveRule(b)

-----------------------------------------------------------------------------
\* C17: a feature block of the donor none of whose substitution or
\* positioning rules survives is not in the merged feature text: every
\* feature block there holds a rule, or a reference to a lookup, at some
\* depth.
C17_FeatureWithoutRulesCulled ==
    (Done /\ opts.layout_handling \in {"subset", "closure"}) =>
        \A b \in AllStatements(features1) :
            b.kind = "FeatureBlock" =>
                \E st \in AllStatements(b.statements) :
                    st.kind \in RuleKinds \cup {"LookupReference"}

-----------------------------------------------------------------------------
\* C18: after cleanup every (anchor, mark class) pair of every
\* mark-base-position statement of the output names a mark class whose
\* definition is in the output, wherever the statement sits, and no such
\* statement is left without pairs.
RetainedMarkClasses(statements) ==
    {d.name : d \in {s \in AllStatements(statements) : s.kind = "MarkClassDefinition"}}

C18_MarkPairsRetained ==
    pc = "components" =>
        \A st \in AllStatements(ufo2_features) :
            st.kind = "MarkBasePos" =>
                /\ st.marks # <<>>
                /\ Range(st.marks) \subseteq RetainedMarkClasses(ufo2_features)

-----------------------------------------------------------------------------
\* C19: a call of merge_ufos with an unrecognized layout_handling value, or
\* with an unrecognized existing_handling value, fails at once with an error
\* and leaves the destination font as it was.
Unrecognized ==
    \/ opts.layout_handling \notin LayoutModes
    \/ /\ ~opts.existing_handling.isdict
       /\ opts.existing_handling.str \notin {"skip", "replace"}

C19_UnrecognizedOptionFails ==
    (Unrecognized /\ pc # "call") =>
        /\ pc = "error"
        /\ err = "ValueError"
        /\ ufo1 = ufo1_orig
        /\ features1 = features1_orig

-----------------------------------------------------------------------------
\* C20: a name of glyphs or of exclude_glyphs that the donor lacks, or an
\* excluded name that is not in the selection, never aborts the merge: no
\* call ends with the KeyError of a missing name.
C20_UnknownNameNeverFatal == err # "KeyError"

-----------------------------------------------------------------------------
\* C21: a call that selects no glyph returns successfully and changes
\* nothing: the destination's glyphs with their codepoints, its feature text,
\* kerning, groups and lib are as before the call.
C21_EmptySelectionNoOp ==
    (Done /\ Selected = {}) =>
        /\ ufo1 = ufo1_orig
        /\ features1 = features1_orig
        /\ kerning1 = <<>> /\ groups1 = <<>>
        /\ lib1 = [k \in {"public.glyphOrder"} |-> FontKeys(ufo1_orig)]

\* C22: a donor glyph selected through a requested codepoint and listed in
\* exclude_glyphs leaves the destination's glyph of that name as it was,
\* codepoints included.
C22_ExcludedCodepointGlyphUntouched ==
    Done =>
        \A g \in Range(opts.exclude_glyphs) \cap DOMAIN ufo1_orig \cap DOMAIN ufo2 :
            ufo2[g].unicodes \cap opts.codepoints # {} =>
                (g \in DOMAIN ufo1 /\ ufo1[g] = ufo1_orig[g])

-----------------------------------------------------------------------------
\* C23: filter_glyph_container never changes the class a named reference
\* shares.  Until filter_layout has run, the references to named classes in
\* the rule tree hold the membership the donor gave them, whatever closure
\* rounds were run; and once it has run, every reference site holds the full
\* original membership of its class restricted to the final glyph set, in
\* the original order.
OriginalSites(key) == {c \in ClassSites(ufo2_features_orig) : c.name = key}

C23_SharedClassUnchanged ==
    /\ pc \in {"closure", "filter"} =>
          ClassSites(ufo2_features) = ClassSites(ufo2_features_orig)
    /\ pc = "dedup" =>
          \A s \in ClassSites(ufo2_features) :
              \E c \in OriginalSites(s.key) :
                  s.glyphs = filter_glyphs(c.glyphs, final_glyphset)

\* a closure that filtered a reference against a smaller glyph set in an
\* earlier round than the one the reference site ends up with
C23_Witness ==
    /\ pc = "dedup"
    /\ rounds >= 2
    /\ \E s \in ClassSites(ufo2_features) :
          \E i \in 1..Len(CopyList(class_name_references, s.key)) :
              Len(CopyList(class_name_references, s.key)[i].glyphs) < Len(s.glyphs)

-----------------------------------------------------------------------------
\* C24: filter_layout keeps of a single substitution whose prefix and suffix
\* are live exactly the positional (input, output) pairs with both glyphs in
\* the final glyph set, in the original order, a one-glyph replacement being
\* paired with every input.  The rule is dropped when no pair is left, is
\* written with two glyph names when one pair is left and with two classes
\* of equal length otherwise.
SingleSubsts(statements) == {st \in AllStatements(statements) : st.kind = "SingleSubst"}

LiveSlot(c) == \E g \in Range(glyphSet(c, mark_classes)) : g \in final_glyphset

LiveContext(st) ==
    /\ \A i \in 1..Len(st.prefix) : LiveSlot(st.prefix[i])
    /\ \A i \in 1..Len(st.suffix) : LiveSlot(st.suffix[i])

PositionalPairs(st) ==
    LET ins == glyphSet(st.glyphs[1], mark_classes)
        outs == glyphSet(st.replacement[1], mark_classes)
    IN  [i \in 1..Len(ins) |-> <<ins[i], IF Len(outs) = 1 THEN outs[1] ELSE outs[i]>>]

SurvivingPairs(st) ==
    SelectSeq(PositionalPairs(st),
              LAMBDA p : p[1] \in final_glyphset /\ p[2] \in final_glyphset)

SingleForm(o) ==
    /\ Len(o.glyphs) = 1 /\ Len(o.replacement) = 1
    /\ Len(o.glyphs[1].glyphs) = Len(o.replacement[1].glyphs)
    /\ o.glyphs[1].k = (IF Len(o.glyphs[1].glyphs) = 1 THEN "GlyphName" ELSE "GlyphClass")
    /\ o.replacement[1].k = o.glyphs[1].k

C24_SingleSubstPairs ==
    [][FilterLayout =>
        /\ \A o \in SingleSubsts(ufo2_features') : SingleForm(o)
        /\ {PositionalPairs(o) : o \in SingleSubsts(ufo2_features')}
              = {SurvivingPairs(d) :
                    d \in {e \in SingleSubsts(ufo2_features) : LiveContext(e)}} \ {<<>>}
      ]_vars

\* filter_layout has written with glyph names a donor rule between classes
\* of which one pair was left
C24_Witness ==
    /\ pc = "dedup"
    /\ \E d \in SingleSubsts(ufo2_features_orig), o \in SingleSubsts(ufo2_features) :
          /\ Len(PositionalPairs(d)) = 2
          /\ Len(SurvivingPairs(d)) = 1
          /\ PositionalPairs(o) = SurvivingPairs(d)
          /\ o.glyphs[1].k = "GlyphName"

-----------------------------------------------------------------------------
\* C25: at every point of a merge that has not failed, every key of the
\* incoming selection is in the working glyph set and names a glyph of the
\* donor.
C25_IncomingWithinDonor ==
    pc \notin {"call", "error"} =>
        /\ Range(incoming_glyphset) \subseteq final_glyphset
        /\ Range(incoming_glyphset) \subseteq DOMAIN ufo2

-----------------------------------------------------------------------------
\* C26: the closure only reads the donor's rules.  When the loop is left the
\* rule tree is the donor's and no copy of a named class has been recorded,
\* and what filter_layout then emits is what filtering the donor's rules
\* once against the final glyph set gives.
C26_ClosureReadsOnly ==
    opts.layout_handling = "closure" =>
        /\ pc = "filter" =>
              /\ ufo2_features = ufo2_features_orig
              /\ class_name_references = <<>>
        /\ pc = "dedup" =>
              /\ ufo2_features =
                    filter_layout(ufo2_features_orig, final_glyphset, Env(<<>>, <<>>)).s
              /\ class_name_references =
                    filter_layout(ufo2_features_orig, final_glyphset, Env(<<>>, <<>>)).env.refs

-----------------------------------------------------------------------------
\* the glyphs a rule names in its slots
GlyphsOf(st) == UNION {Range(glyphSet(c, mark_classes)) : c \in SlotsOf(st)}

\* the glyph set of the layout phases: the destination's glyphs before the
\* merge, the selected glyphs and those the layout closure added
LayoutGlyphSet == DOMAIN ufo1_orig \cup Seeds

\* C27 as the specification words it: the donor's rules are filtered against
\* the glyph names the destination has when the merge ends, component bases
\* included.
C27_FilteredAgainstDestination ==
    pc = "filter" => final_glyphset = DOMAIN ufo1_orig \cup ReachFrom(Seeds, Untouched)

\* C27 (as amended): the donor's rules are filtered before component closure
\* runs, against the destination's glyphs before the merge plus the selected
\* glyphs and those of the layout closure; no rule that names a glyph
\* outside that set is emitted, even if component closure then brings the
\* glyph into the destination.
C27_FilteredBeforeComponents ==
    /\ pc = "filter" => final_glyphset = LayoutGlyphSet
    /\ (Done /\ opts.layout_handling \in {"subset", "closure"}) =>
          \A st \in RulesOf(features1) : GlyphsOf(st) \subseteq LayoutGlyphSet

\* a finished merge where a donor rule names only glyphs the destination
\* ends up with, one of them brought by component closure alone, and the
\* rule was not emitted
C27_Witness ==
    /\ Done
    /\ opts.layout_handling = "subset"
    /\ \E st \in RulesOf(ufo2_features_orig) :
          /\ GlyphsOf(st) \subseteq DOMAIN ufo1
          /\ GlyphsOf(st) \ LayoutGlyphSet # {}
          /\ st \notin RulesOf(features1)

-----------------------------------------------------------------------------
\* C28: component closure comes to an end on every donor component graph,
\* cyclic ones included, under "replace" and under "skip": the calls of
\* close_components never nest beyond what the interpreter allows.
C28_ComponentClosureEnds == err # "RecursionError"

-----------------------------------------------------------------------------
\* the statements of a feature text that are not declarations of language
\* systems, in order
OtherStatements(features) == SelectSeq(features, LAMBDA st : st.kind # "LanguageSystem")

\* C29: the merge of the language systems changes declarations only: every
\* other statement of the destination's feature text, one between two
\* declarations included, is still there afterwards, in the same order.
C29_OnlyDeclarationsChange ==
    pc = "components" =>
        /\ Len(OtherStatements(features1)) >= Len(OtherStatements(features1_orig))
        /\ SubSeq(OtherStatements(features1), 1, Len(OtherStatements(features1_orig)))
              = OtherStatements(features1_orig)

-----------------------------------------------------------------------------
\* the slot is the donor's slot restricted to the glyph set, in order
Restricted(o, d) ==
    glyphSet(o, mark_classes') = filter_glyphs(glyphSet(d, mark_classes), final_glyphset)

\* the sequence has the donor's slots, each restricted to the glyph set
SameSlots(new, old) ==
    /\ Len(new) = Len(old)
    /\ \A i \in 1..Len(new) : Restricted(new[i], old[i])

\* the rule o is the donor's rule d with every slot restricted
FilteredFrom(o, d) ==
    /\ o.kind = d.kind
    /\ SameSlots(o.prefix, d.prefix)
    /\ SameSlots(o.suffix, d.suffix)
    /\ IF o.kind = "SingleSubst" THEN Len(o.glyphs) = Len(d.glyphs)
       ELSE SameSlots(o.glyphs, d.glyphs)
    /\ o.kind = "SinglePos" => o.value = d.value

\* C30: filter_layout keeps the number of slots of a rule it keeps: the
\* prefix, the input and the suffix of a surviving rule have the slots of the
\* donor's rule, each restricted to the glyph set, and a single-position rule
\* keeps every positioned slot with its value.
C30_SlotsPreserved ==
    [][FilterLayout =>
          \A o \in RulesOf(ufo2_features') :
              \E d \in RulesOf(ufo2_features) : FilteredFrom(o, d)
      ]_vars

=============================================================================
